---- MODULE Spec2Model ----
(***************************************************************************)
(* A model of zodiac-pilot's simulation pipeline:                          *)
(*   - TenderlyProvider (src/unnamed/part_002): the remote fork backend,   *)
(*     its lazily created fork, refork() and deleteFork();                 *)
(*   - the postMessage bridges between the extension page and the Ganache  *)
(*     iframe (src/unnamed/part_001 and                                    *)
(*     src/extension/src/components/ConnectionBubble/index.tsx);           *)
(*   - the drawer's reforkAndRerun (src/extension/src/browser/Drawer).     *)
(*                                                                         *)
(* JavaScript runs one task at a time.  A continuation of an await on a    *)
(* settled promise (or on a non-promise value) is a microtask: it runs     *)
(* before any network response, timer or message event is handled.  The    *)
(* model keeps this: the steps that handle a response, a timer or a        *)
(* message are enabled only when no microtask is runnable.                 *)
(***************************************************************************)
EXTENDS Integers, Sequences, FiniteSets, Bags, TLC

\* Number of calls (request / refork / deleteFork) made on one TenderlyProvider.
MaxCalls == 3

\* Number of request() calls made on the two bridge providers together.
MaxRequests == 2

\* Number of envelopes posted by a window that is neither the extension
\* page nor the Ganache iframe.
MaxForged == 1

\* Number of times the live provider handed to ProvideGanache changes.
MaxProviderChanges == 1

\* Number of eth_sendTransaction requests the application makes through
\* the ForkProvider.
MaxSends == 2

\* Number of hex digits of a value handed to formatValue.
MaxDigits == 4

\* Number of unsubmitted ledger entries handed to the batch encoder, and
\* number of hex digits of the value of such an entry.
MaxEntries == 2
MaxValueDigits == 2

\* Block number of the live chain when a fork is created
\* (json.simulation_fork.block_number of the POST response).
ForkBase == 10

VARIABLES
  \* ---- TenderlyProvider fields (part_002:89-97); 0 stands for undefined
  forkProviderPromise,  \* id of the promise held, 0 = undefined
  forkId,               \* id of the fork, 0 = undefined
  blockNumber,          \* cached block number, 0 = undefined
  \* ---- promises returned by createFork, by id: "pending" | "resolved".
  \*      The fork made by creation p has id p.
  promises,
  \* ---- the fork service
  heads,                \* heads[f]: head block of fork f (0 until created)
  deletes,              \* deletes[f]: number of DELETE requests issued for f
  gone,                 \* forks whose DELETE the service has carried out
  \* ---- asynchronous activities of the provider that have not finished
  procs,
  nCalls,               \* calls made so far, but for the sends of a re-run
  \* ---- history (ghost) variables
  answered,             \* how the latest request() call was routed
  lastDel,              \* what the latest deleteFork() continuation did
  reforked,             \* the latest refork() that resolved, while it stands
  nResets,              \* refork() and deleteFork() calls made so far
  \* ---- the message bridges (part_001, ConnectionBubble/index.tsx)
  channel,              \* bag of envelopes posted and not yet delivered
  hostSource,           \* GanacheBridgeHost.source, "none" = undefined
  bridgeReady,          \* ProvideGanache's bridgeReady
  hostCalls,            \* handleRequest calls awaiting the wallet provider
  gpMessageId,          \* GanacheProvider.messageId
  gpCalls,              \* GanacheProvider.request calls, in call order
  eipMessageId,         \* Eip1193Provider.messageId (in the iframe)
  eipCalls,             \* Eip1193Provider.request calls, in call order
  frameState,           \* the iframe script: "loading" | "ready"
  frameCalls,           \* dispatcher calls awaiting the Ganache provider
  nForged,              \* envelopes posted by another window so far
  \* ---- history (ghost) variable of the bridges
  last,                 \* what the latest bridge step did (see NoLast)
  \* ---- the transactions drawer (browser/Drawer/index.tsx)
  newTransactions,      \* the unsubmitted ledger entries, in order
  nextTxId,             \* the id the next send gets
  rerun,                \* the reforkAndRerun call (see NoRerun)
  \* ---- the sends made through the ForkProvider, by id (at id + 1)
  decodes,              \* where the onBeforeTransactionSend call of a send is
  \* ---- TenderlyProvider's transaction maps and the fork service's heads
  globalHead,           \* pairs <<f, id>>: id of the head transaction of fork f
  transactionIds,       \* this.transactionIds, pairs <<hash, id>>
  transactionInfo,      \* this.transactionInfo, pairs <<hash, promise>>
  infos,                \* the promises of fetchTransactionInfo, by number
  \* ---- history (ghost) variable
  delivered,            \* what the latest step gave to a caller (see NoDelivery)
  \* ---- the pure functions of the batch encoder
  value,                \* the argument formatValue is applied to
  out,                  \* the latest application (see NoOut)
  \* ---- the iframe's database and the hosts ProvideGanache has replaced
  dbDelete,             \* the deleteDatabase request: "pending" | "success" | "error"
  retired,              \* handleRequest calls of replaced GanacheBridgeHosts
  nProviders,           \* changes of the live provider so far
  \* ---- the submitTransactions call (see NoSubmit)
  submit

tvars == <<forkProviderPromise, forkId, blockNumber, promises, heads, deletes,
           gone, procs, nCalls, answered, lastDel, reforked, nResets>>

bvars == <<channel, hostSource, bridgeReady, hostCalls, gpMessageId, gpCalls,
           eipMessageId, eipCalls, frameState, frameCalls, nForged, last>>

dvars == <<newTransactions, nextTxId, rerun, decodes>>

evars == <<value, out>>

kvars == <<globalHead, transactionIds>>

ivars == <<transactionInfo, infos, delivered>>

gvars == <<dbDelete, retired, nProviders>>

svars == <<submit>>

vars == <<tvars, bvars, dvars, evars, kvars, ivars, gvars, svars>>

Methods == {"eth_chainId", "eth_blockNumber", "eth_call",
            "eth_sendTransaction", "evm_snapshot", "evm_revert"}

\* part_002:121-123: the methods that spawn a fork lazily
NeedsFork(m) == m \in {"eth_sendTransaction", "evm_snapshot", "evm_revert"}

RemoveAt(s, i) == SubSeq(s, 1, i - 1) \o SubSeq(s, i + 1, Len(s))

\* An activity: a request(), refork() or deleteFork() call that is suspended
\* at an await, or the post-send timer callback.
\*   p: the promise it awaits (0: undefined);
\*   f: the fork its JsonRpcProvider points to (request, timer), the fork
\*      it deletes (deleteFork), the fork id it found when called (refork);
\*   g: the fork whose info fetchForkInfo asked for.
\*   drawer: the call was made by reforkAndRerun, which awaits it;
\*   tx: the call was made by ForkProvider.request for the send with this
\*      id (-1: it was not), which awaits it; such calls stay, at pc
\*      "resolved" or "rejected", until the caller goes on.
\*   result: what provider.send returned (<<>>: nothing yet); for a
\*      getTransactionInfo call, the hash it was called with, and g the
\*      promise of fetchTransactionInfo it awaits
\*   created, after, noFork, inflight, stands: history of the call, read by
\*   the properties only.
Proc(kind, method, pc, p, f) ==
  [kind |-> kind, method |-> method, pc |-> pc, p |-> p, f |-> f, g |-> 0,
   drawer |-> FALSE, tx |-> -1, result |-> <<>>, created |-> FALSE,
   after |-> 0, noFork |-> FALSE, inflight |-> FALSE, stands |-> FALSE]

Settled(p) == IF p = 0 THEN TRUE ELSE promises[p] = "resolved"

Rejected(p) == IF p = 0 THEN FALSE ELSE promises[p] = "rejected"

\* a Map as the set of its pairs <<key, value>>; 0 stands for undefined
MapGet(m, key) ==
  IF \E e \in m : e[1] = key THEN (CHOOSE e \in m : e[1] = key)[2] ELSE 0

MapSet(m, key, val) == {e \in m : e[1] # key} \cup {<<key, val>>}

\* The continuation of an await on a settled promise is a runnable microtask.
Runnable(pr) ==
  IF pr.pc \in {"resolved", "rejected"} THEN TRUE
  ELSE IF pr.pc = "txInfoAwait" THEN infos[pr.g].state # "pending"
  ELSE /\ pr.pc \in {"awaitFork", "reforkAwait", "delAwait", "infoAwait"}
       /\ (Settled(pr.p) \/ Rejected(pr.p))

\* the call of activity i returns (ok) or throws
Finish(ps, i, ok) ==
  IF ps[i].drawer \/ ps[i].tx # -1
    THEN [ps EXCEPT ![i].pc = IF ok THEN "resolved" ELSE "rejected"]
    ELSE RemoveAt(ps, i)

MicrotaskPending == \E i \in 1..Len(procs) : Runnable(procs[i])

NoReply == [method |-> "", noFork |-> FALSE, route |-> "", created |-> FALSE]
NoDel == [p |-> 0, noFork |-> FALSE, inflight |-> FALSE, fork |-> 0,
          changed |-> FALSE]
NoRefork == [old |-> 0, fork |-> 0]

\* an error: its message and, if it has an `error.code`, this code (else 0)
Error(message, code) == [message |-> message, code |-> code]

\* delivered: call is "request" or "getTransactionInfo"; for a request that
\* failed, method and created tell which call it was, cause what failed
\* ("send" | "createFork"), upstream the error that came up and error the
\* error the caller got; for getTransactionInfo, hash is the hash asked for,
\* promise the promise awaited and ok whether the caller got the info
NoDelivery ==
  [call |-> "", method |-> "", created |-> FALSE, cause |-> "",
   upstream |-> Error("", 0), error |-> Error("", 0),
   hash |-> <<>>, promise |-> 0, ok |-> FALSE]

TenderlyInit ==
  /\ forkProviderPromise = 0
  /\ forkId = 0
  /\ blockNumber = 0
  /\ promises = <<>>
  /\ heads = <<>>
  /\ deletes = <<>>
  /\ gone = {}
  /\ procs = <<>>
  /\ nCalls = 0
  /\ answered = NoReply
  /\ lastDel = NoDel
  /\ reforked = NoRefork
  /\ nResets = 0
  /\ globalHead = {}
  /\ transactionIds = {}
  /\ transactionInfo = {}
  /\ infos = <<>>
  /\ delivered = NoDelivery

\* ------------------------------------------------------------------------
\* TenderlyProvider
\* ------------------------------------------------------------------------

\* createFork up to its first await: the POST is issued, the promise pending
CreateForkCall ==
  /\ promises' = Append(promises, "pending")
  /\ heads' = Append(heads, 0)
  /\ deletes' = Append(deletes, 0)

NewPromise == Len(promises) + 1

\* No fork, and none being created
NoForkNow ==
  /\ forkProviderPromise = 0
  /\ forkId = 0
  /\ \A p \in 1..Len(promises) : promises[p] # "pending"

\* request(), up to its first await or its return; ps are the activities
\* the call finds, drawer tells whether reforkAndRerun makes the call, tx
\* is the id of the send ForkProvider.request makes the call for
RequestFrom(ps, m, drawer, tx) ==
  /\ IF drawer THEN nCalls' = nCalls
               ELSE nCalls < MaxCalls /\ nCalls' = nCalls + 1
  /\ LET reply(route, created) ==
           [method |-> m, noFork |-> NoForkNow, route |-> route, created |-> created]
         proc(pc, p, created) ==
           [Proc("request", m, pc, p, 0) EXCEPT
              !.drawer = drawer, !.tx = tx, !.created = created,
              !.after = reforked.fork,
              !.noFork = NoForkNow]
     IN
     IF m = "eth_chainId" THEN
       /\ answered' = reply("local", FALSE)
       /\ procs' = ps
       /\ UNCHANGED <<forkProviderPromise, promises, heads, deletes>>
     ELSE IF m = "eth_blockNumber" /\ blockNumber # 0 THEN
       /\ answered' = reply("cache", FALSE)
       /\ procs' = ps
       /\ UNCHANGED <<forkProviderPromise, promises, heads, deletes>>
     ELSE IF forkProviderPromise = 0 /\ NeedsFork(m) THEN
       /\ CreateForkCall
       /\ forkProviderPromise' = NewPromise
       /\ procs' = Append(ps, proc("awaitFork", NewPromise, TRUE))
       /\ answered' = reply("fork", TRUE)
     ELSE IF forkProviderPromise = 0 THEN
       /\ procs' = Append(ps, proc("awaitLive", 0, FALSE))
       /\ answered' = reply("live", FALSE)
       /\ UNCHANGED <<forkProviderPromise, promises, heads, deletes>>
     ELSE
       /\ procs' = Append(ps, proc("awaitFork", forkProviderPromise, FALSE))
       /\ answered' = reply("fork", FALSE)
       /\ UNCHANGED <<forkProviderPromise, promises, heads, deletes>>
  /\ UNCHANGED <<forkId, blockNumber, gone, lastDel, reforked, nResets>>

\* a request() call of the application
Request(m) == RequestFrom(procs, m, FALSE, -1)

\* the live provider answers a passed-through request
LiveResponse(i) ==
  /\ procs[i].pc = "awaitLive"
  /\ ~MicrotaskPending
  /\ procs' = Finish(procs, i, TRUE)
  /\ UNCHANGED <<forkProviderPromise, forkId, blockNumber, promises, heads,
                 deletes, gone, nCalls, answered, lastDel, reforked, nResets>>

\* request() after `await this.forkProviderPromise`: provider.send(...)
RequestResume(i) ==
  /\ procs[i].kind = "request"
  /\ procs[i].pc = "awaitFork"
  /\ Settled(procs[i].p)
  /\ procs' = [procs EXCEPT ![i].pc = "awaitSend", ![i].f = procs[i].p]
  /\ UNCHANGED <<forkProviderPromise, forkId, blockNumber, promises, heads,
                 deletes, gone, nCalls, answered, lastDel, reforked, nResets>>

\* the hash of the transaction that made block n of fork f
TxHash(f, n) == <<f, n>>

\* the fork RPC answers provider.send(...).  A deleted fork answers with an
\* error, which request() rethrows.  After eth_sendTransaction the request
\* goes on into fetchForkInfo, up to its `await this.forkProviderPromise`.
RpcResponse(i) ==
  /\ procs[i].pc = "awaitSend"
  /\ ~MicrotaskPending
  /\ LET f == procs[i].f IN
     IF f \in gone THEN
       /\ procs' = Finish(procs, i, FALSE)
       /\ UNCHANGED <<heads, globalHead>>
     ELSE IF procs[i].method = "eth_sendTransaction" THEN
       /\ heads' = [heads EXCEPT ![f] = @ + 1]
       /\ globalHead' = MapSet(globalHead, f, heads[f] + 1)
       /\ procs' = [procs EXCEPT ![i].pc = "infoAwait",
                                 ![i].p = forkProviderPromise,
                                 ![i].result = TxHash(f, heads[f] + 1)]
     ELSE
       /\ procs' = Finish(procs, i, TRUE)
       /\ UNCHANGED <<heads, globalHead>>
  /\ UNCHANGED <<forkProviderPromise, forkId, blockNumber, promises, deletes,
                 gone, nCalls, answered, lastDel, reforked, nResets>>

\* fetchForkInfo after its await: throws without a fork id, else GETs the fork
FetchForkInfoResume(i) ==
  /\ procs[i].pc = "infoAwait"
  /\ Settled(procs[i].p)
  /\ IF forkId = 0
       THEN procs' = Finish(procs, i, FALSE)
       ELSE procs' = [procs EXCEPT ![i].pc = "infoFetch", ![i].g = forkId]
  /\ UNCHANGED <<forkProviderPromise, forkId, blockNumber, promises, heads,
                 deletes, gone, nCalls, answered, lastDel, reforked, nResets>>

\* the control API answers the GET; request() caches the block number, sets
\* the timer and returns.  A deleted fork has no simulation_fork to read.
FetchForkInfoResponse(i) ==
  /\ procs[i].pc = "infoFetch"
  /\ ~MicrotaskPending
  /\ IF procs[i].g \in gone THEN
       /\ procs' = Finish(procs, i, FALSE)
       /\ UNCHANGED <<blockNumber, transactionIds>>
     ELSE
       /\ blockNumber' = heads[procs[i].g]
       /\ transactionIds' = MapSet(transactionIds, procs[i].result,
                                   MapGet(globalHead, procs[i].g))
       /\ procs' = Append(Finish(procs, i, TRUE),
                          Proc("timer", "", "timerWait", 0, procs[i].f))
  /\ UNCHANGED <<forkProviderPromise, forkId, promises, heads, deletes, gone,
                 nCalls, answered, lastDel, reforked, nResets>>

\* the timer set after a send fires: provider.send('evm_increaseBlocks', ['0x2'])
TimerFire(i) ==
  /\ procs[i].pc = "timerWait"
  /\ ~MicrotaskPending
  /\ procs' = [procs EXCEPT ![i].pc = "timerSend"]
  /\ UNCHANGED <<forkProviderPromise, forkId, blockNumber, promises, heads,
                 deletes, gone, nCalls, answered, lastDel, reforked, nResets>>

\* an advance by one block
AdvancedBlockNumberByOne(bn) == IF bn # 0 THEN bn + 1 ELSE bn

\* part_002:158
AdvancedBlockNumber(bn) == IF bn # 0 THEN bn + 2 ELSE bn

\* the fork RPC answers evm_increaseBlocks; the callback advances the cache
TimerResponse(i) ==
  /\ procs[i].pc = "timerSend"
  /\ ~MicrotaskPending
  /\ LET f == procs[i].f IN
     IF f \in gone THEN UNCHANGED <<heads, blockNumber>>
     ELSE /\ heads' = [heads EXCEPT ![f] = @ + 2]
          /\ blockNumber' = AdvancedBlockNumber(blockNumber)
  /\ procs' = RemoveAt(procs, i)
  /\ UNCHANGED <<forkProviderPromise, forkId, promises, deletes, gone, nCalls,
                 answered, lastDel, reforked, nResets>>

\* the POST of createFork is answered: the fork exists, createFork records it
\* and its promise resolves
CreateForkResponse(p) ==
  /\ promises[p] = "pending"
  /\ ~MicrotaskPending
  /\ promises' = [promises EXCEPT ![p] = "resolved"]
  /\ heads' = [heads EXCEPT ![p] = ForkBase]
  /\ forkId' = p
  /\ blockNumber' = ForkBase
  /\ transactionIds' = {}
  /\ UNCHANGED <<forkProviderPromise, deletes, gone, procs, nCalls, answered,
                 lastDel, reforked, nResets>>

\* deleteFork up to `await this.forkProviderPromise`
DeleteForkProc ==
  [Proc("deleteFork", "", "delAwait", forkProviderPromise, 0) EXCEPT
     !.noFork = NoForkNow,
     !.inflight = ~Settled(forkProviderPromise)]

\* a later refork() or deleteFork() call overtakes the reforks before it
Overtaken(ps) ==
  [k \in 1..Len(ps) |-> [ps[k] EXCEPT !.stands = FALSE]]

DeleteFork ==
  /\ nCalls < MaxCalls
  /\ nCalls' = nCalls + 1
  /\ procs' = Append(Overtaken(procs), DeleteForkProc)
  /\ reforked' = NoRefork
  /\ nResets' = nResets + 1
  /\ UNCHANGED <<forkProviderPromise, forkId, blockNumber, promises, heads,
                 deletes, gone, answered, lastDel>>

\* what a deleteFork continuation did: the promise it awaited, what it was
\* called on, the fork it deleted (0: none) and whether it changed a field
DelRecord(pr, fork) ==
  [p |-> pr.p, noFork |-> pr.noFork, inflight |-> pr.inflight, fork |-> fork,
   changed |-> <<forkId', forkProviderPromise', blockNumber', deletes'>>
                 # <<forkId, forkProviderPromise, blockNumber, deletes>>]

\* deleteFork after its await, with `this.forkId = undefined` left out
DeleteForkResumeKeepsId(i) ==
  /\ procs[i].pc = "delAwait"
  /\ Settled(procs[i].p)
  /\ IF forkId = 0 THEN
       /\ procs' = RemoveAt(procs, i)
       /\ UNCHANGED <<forkId, forkProviderPromise, blockNumber, deletes>>
     ELSE
       /\ forkId' = forkId
       /\ forkProviderPromise' = 0
       /\ blockNumber' = 0
       /\ deletes' = [deletes EXCEPT ![forkId] = @ + 1]
       /\ procs' = [procs EXCEPT ![i].pc = "delFetch", ![i].f = forkId]
  /\ lastDel' = DelRecord(procs[i], forkId)
  /\ UNCHANGED <<promises, heads, gone, nCalls, answered, reforked, nResets>>

\* deleteFork after its await
DeleteForkResume(i) ==
  /\ procs[i].pc = "delAwait"
  /\ Settled(procs[i].p)
  /\ IF forkId = 0 THEN
       /\ procs' = RemoveAt(procs, i)
       /\ UNCHANGED <<forkId, forkProviderPromise, blockNumber, deletes>>
     ELSE
       /\ forkId' = 0
       /\ forkProviderPromise' = 0
       /\ blockNumber' = 0
       /\ deletes' = [deletes EXCEPT ![forkId] = @ + 1]
       /\ procs' = [procs EXCEPT ![i].pc = "delFetch", ![i].f = forkId]
  /\ lastDel' = DelRecord(procs[i], forkId)
  /\ UNCHANGED <<promises, heads, gone, nCalls, answered, reforked, nResets>>

\* the fork service carries out a DELETE it was sent
ServerDelete(f) ==
  /\ \E i \in 1..Len(procs) : procs[i].pc = "delFetch" /\ procs[i].f = f
  /\ f \notin gone
  /\ gone' = gone \cup {f}
  /\ UNCHANGED <<forkProviderPromise, forkId, blockNumber, promises, heads,
                 deletes, procs, nCalls, answered, lastDel, reforked, nResets>>

\* the DELETE is answered: deleteFork returns
DeleteForkResponse(i) ==
  /\ procs[i].pc = "delFetch"
  /\ procs[i].f \in gone
  /\ ~MicrotaskPending
  /\ procs' = RemoveAt(procs, i)
  /\ UNCHANGED <<forkProviderPromise, forkId, blockNumber, promises, heads,
                 deletes, gone, nCalls, answered, lastDel, reforked, nResets>>

\* refork up to `await this.forkProviderPromise`:
\* deleteFork() is called and not awaited, then createFork() is called
ReforkBy(drawer) ==
  /\ nCalls < MaxCalls
  /\ nCalls' = nCalls + 1
  /\ CreateForkCall
  /\ forkProviderPromise' = NewPromise
  /\ procs' = Overtaken(procs) \o
       << DeleteForkProc,
          [Proc("refork", "", "reforkAwait", NewPromise, forkId) EXCEPT
             !.drawer = drawer,
             !.stands = /\ forkId # 0
                        /\ forkProviderPromise = forkId
                        /\ \A k \in 1..Len(procs) :
                             procs[k].kind \notin {"refork", "deleteFork"}] >>
  /\ reforked' = NoRefork
  /\ nResets' = nResets + 1
  /\ UNCHANGED <<forkId, blockNumber, gone, answered, lastDel>>

\* a refork() call of the application
Refork == ReforkBy(FALSE)

\* refork after its await: it returns the new fork's provider
ReforkResume(i) ==
  /\ procs[i].pc = "reforkAwait"
  /\ Settled(procs[i].p)
  /\ reforked' = IF procs[i].stands
                   THEN [old |-> procs[i].f, fork |-> procs[i].p]
                   ELSE reforked
  /\ procs' = Finish(procs, i, TRUE)
  /\ UNCHANGED <<forkProviderPromise, forkId, blockNumber, promises, heads,
                 deletes, gone, nCalls, answered, lastDel, nResets>>

\* ---- failures of the fork RPC and of the fork creation

\* part_002:137
RateLimitCode == -32603

\* the errors provider.send(...) fails with on a fork that exists: with the
\* code of rate limiting, with another code, without a code
UpstreamErrors ==
  {Error("upstream", RateLimitCode), Error("upstream", -32000),
   Error("upstream", 0)}

\* a catch clause that translates every error
ThrownAlwaysTranslated(e) == Error("Error sending request to Tenderly", 0)

\* part_002:136-146: what request() throws when provider.send has thrown e
Thrown(e) ==
  IF e.code = RateLimitCode
    THEN Error("Error sending request to Tenderly", 0)
    ELSE e

\* what a failed createFork rejects its promise with
CreationError == Error("createFork failed", 0)

Failure(pr, cause, upstream, error) ==
  [NoDelivery EXCEPT !.call = "request", !.method = pr.method,
                     !.created = pr.created, !.cause = cause,
                     !.upstream = upstream, !.error = error]

\* the fork RPC answers provider.send(...) with an error: request() throws
RpcError(i, e) ==
  /\ procs[i].pc = "awaitSend"
  /\ procs[i].f \notin gone
  /\ ~MicrotaskPending
  /\ procs' = Finish(procs, i, FALSE)
  /\ delivered' = Failure(procs[i], "send", e, Thrown(e))
  /\ UNCHANGED <<forkProviderPromise, forkId, blockNumber, promises, heads,
                 deletes, gone, nCalls, answered, lastDel, reforked, nResets>>

\* the POST of createFork fails (or its answer has no simulation_fork):
\* createFork throws, its promise is rejected
CreateForkFailure(p) ==
  /\ promises[p] = "pending"
  /\ ~MicrotaskPending
  /\ promises' = [promises EXCEPT ![p] = "rejected"]
  /\ UNCHANGED <<forkProviderPromise, forkId, blockNumber, heads, deletes, gone,
                 procs, nCalls, answered, lastDel, reforked, nResets>>

\* a request() that returns undefined where the creation has failed
RequestRejectedSwallowed(i) ==
  /\ procs[i].kind = "request"
  /\ procs[i].pc = "awaitFork"
  /\ Rejected(procs[i].p)
  /\ procs' = Finish(procs, i, TRUE)
  /\ delivered' = NoDelivery
  /\ UNCHANGED <<forkProviderPromise, forkId, blockNumber, promises, heads,
                 deletes, gone, nCalls, answered, lastDel, reforked, nResets>>

\* request() after `await this.forkProviderPromise` on a rejected promise:
\* the await throws, and so does request()
RequestRejected(i) ==
  /\ procs[i].kind = "request"
  /\ procs[i].pc = "awaitFork"
  /\ Rejected(procs[i].p)
  /\ procs' = Finish(procs, i, FALSE)
  /\ delivered' = Failure(procs[i], "createFork", CreationError, CreationError)
  /\ UNCHANGED <<forkProviderPromise, forkId, blockNumber, promises, heads,
                 deletes, gone, nCalls, answered, lastDel, reforked, nResets>>

\* refork() after `await this.forkProviderPromise` on a rejected promise:
\* the await throws, and so does refork()
ReforkRejected(i) ==
  /\ procs[i].pc = "reforkAwait"
  /\ Rejected(procs[i].p)
  /\ procs' = Finish(procs, i, FALSE)
  /\ UNCHANGED <<forkProviderPromise, forkId, blockNumber, promises, heads,
                 deletes, gone, nCalls, answered, lastDel, reforked, nResets>>

\* deleteFork() after `await this.forkProviderPromise` on a rejected promise:
\* the await throws, deleteFork() throws and leaves the fields as they are
DeleteForkRejected(i) ==
  /\ procs[i].pc = "delAwait"
  /\ Rejected(procs[i].p)
  /\ procs' = RemoveAt(procs, i)
  /\ lastDel' = [p |-> procs[i].p, noFork |-> procs[i].noFork,
                 inflight |-> procs[i].inflight, fork |-> 0, changed |-> FALSE]
  /\ UNCHANGED <<forkProviderPromise, forkId, blockNumber, promises, heads,
                 deletes, gone, nCalls, answered, reforked, nResets>>

\* ---- getTransactionInfo

\* fetchTransactionInfo up to its first await or its throw: the promise it
\* returns, rejected at once without a fork or without an id for the hash,
\* else pending with the GET for the transaction issued
FetchTransactionInfo(h) ==
  IF forkId = 0 THEN
    [hash |-> h, state |-> "rejected", fetched |-> FALSE, fork |-> 0, id |-> 0,
     error |-> "No Tenderly fork available"]
  ELSE IF MapGet(transactionIds, h) = 0 THEN
    [hash |-> h, state |-> "rejected", fetched |-> FALSE, fork |-> forkId,
     id |-> 0, error |-> "Transaction not found"]
  ELSE
    [hash |-> h, state |-> "pending", fetched |-> TRUE, fork |-> forkId,
     id |-> MapGet(transactionIds, h), error |-> ""]

GetTransactionInfoProc(h, q) ==
  [Proc("getTransactionInfo", "", "txInfoAwait", 0, 0) EXCEPT
     !.g = q, !.result = h]

\* a getTransactionInfo that does not look into this.transactionInfo
GetTransactionInfoAlwaysFetches(h) ==
  /\ nCalls < MaxCalls
  /\ nCalls' = nCalls + 1
  /\ infos' = Append(infos, FetchTransactionInfo(h))
  /\ transactionInfo' = MapSet(transactionInfo, h, Len(infos) + 1)
  /\ procs' = Append(procs, GetTransactionInfoProc(h, Len(infos) + 1))
  /\ delivered' = NoDelivery
  /\ UNCHANGED <<forkProviderPromise, forkId, blockNumber, promises, heads,
                 deletes, gone, answered, lastDel, reforked, nResets>>

\* getTransactionInfo(h) up to `await transactionInfoPromise`
GetTransactionInfo(h) ==
  /\ nCalls < MaxCalls
  /\ nCalls' = nCalls + 1
  /\ IF MapGet(transactionInfo, h) = 0
       THEN /\ infos' = Append(infos, FetchTransactionInfo(h))
            /\ transactionInfo' = MapSet(transactionInfo, h, Len(infos) + 1)
       ELSE UNCHANGED <<infos, transactionInfo>>
  /\ procs' = Append(procs, GetTransactionInfoProc(h, MapGet(transactionInfo', h)))
  /\ delivered' = NoDelivery
  /\ UNCHANGED <<forkProviderPromise, forkId, blockNumber, promises, heads,
                 deletes, gone, answered, lastDel, reforked, nResets>>

\* the control API answers the GET of fetchTransactionInfo, or the GET fails
TransactionInfoResponse(q, ok) ==
  /\ infos[q].state = "pending"
  /\ ~MicrotaskPending
  /\ infos' = [infos EXCEPT ![q].state = IF ok THEN "resolved" ELSE "rejected",
                            ![q].error = IF ok THEN "" ELSE "fetch failed"]
  /\ delivered' = NoDelivery
  /\ UNCHANGED <<tvars, transactionInfo>>

\* getTransactionInfo after its await: it returns the info or throws
GetTransactionInfoResume(i) ==
  /\ procs[i].pc = "txInfoAwait"
  /\ infos[procs[i].g].state # "pending"
  /\ procs' = RemoveAt(procs, i)
  /\ delivered' = [NoDelivery EXCEPT
                     !.call = "getTransactionInfo",
                     !.hash = procs[i].result,
                     !.promise = procs[i].g,
                     !.ok = infos[procs[i].g].state = "resolved"]
  /\ UNCHANGED <<forkProviderPromise, forkId, blockNumber, promises, heads,
                 deletes, gone, nCalls, answered, lastDel, reforked, nResets,
                 transactionInfo, infos>>

\* the hashes getTransactionInfo is called with: those of the sends that
\* have returned, and one that no send has returned
Hashes == {e[1] : e \in transactionIds} \cup {TxHash(0, 0)}

Procs == 1..Len(procs)

\* sends and getTransactionInfo calls on one provider
InfoNext ==
  \/ Request("eth_sendTransaction")
       /\ delivered' = NoDelivery
       /\ UNCHANGED <<gvars, svars, bvars, dvars, evars, kvars, transactionInfo, infos>>
  \/ \E i \in Procs : RequestResume(i)
       /\ delivered' = NoDelivery
       /\ UNCHANGED <<gvars, svars, bvars, dvars, evars, kvars, transactionInfo, infos>>
  \/ \E i \in Procs : RpcResponse(i)
       /\ delivered' = NoDelivery
       /\ UNCHANGED <<gvars, svars, bvars, dvars, evars, transactionIds, transactionInfo, infos>>
  \/ \E i \in Procs : FetchForkInfoResume(i)
       /\ delivered' = NoDelivery
       /\ UNCHANGED <<gvars, svars, bvars, dvars, evars, kvars, transactionInfo, infos>>
  \/ \E i \in Procs : FetchForkInfoResponse(i)
       /\ delivered' = NoDelivery
       /\ UNCHANGED <<gvars, svars, bvars, dvars, evars, globalHead, transactionInfo, infos>>
  \/ \E i \in Procs : TimerFire(i)
       /\ delivered' = NoDelivery
       /\ UNCHANGED <<gvars, svars, bvars, dvars, evars, kvars, transactionInfo, infos>>
  \/ \E i \in Procs : TimerResponse(i)
       /\ delivered' = NoDelivery
       /\ UNCHANGED <<gvars, svars, bvars, dvars, evars, kvars, transactionInfo, infos>>
  \/ \E p \in 1..Len(promises) : CreateForkResponse(p)
       /\ delivered' = NoDelivery
       /\ UNCHANGED <<gvars, svars, bvars, dvars, evars, globalHead, transactionInfo, infos>>
  \/ \E h \in Hashes : GetTransactionInfo(h)
       /\ UNCHANGED <<gvars, svars, bvars, dvars, evars, kvars>>
  \/ \E q \in 1..Len(infos), ok \in BOOLEAN : TransactionInfoResponse(q, ok)
       /\ UNCHANGED <<gvars, svars, bvars, dvars, evars, kvars>>
  \/ \E i \in Procs : GetTransactionInfoResume(i)
       /\ UNCHANGED <<gvars, svars, bvars, dvars, evars, kvars>>

\* the hashes a caller of getTransactionInfo holds: those of Hashes and
\* those it has looked up before
KnownHashes == Hashes \cup {e[1] : e \in transactionInfo}

\* sends, getTransactionInfo calls and refork() on one provider
ReforkInfoNext ==
  \/ Request("eth_sendTransaction")
       /\ delivered' = NoDelivery
       /\ UNCHANGED <<gvars, svars, bvars, dvars, evars, kvars, transactionInfo, infos>>
  \/ \E i \in Procs : RequestResume(i)
       /\ delivered' = NoDelivery
       /\ UNCHANGED <<gvars, svars, bvars, dvars, evars, kvars, transactionInfo, infos>>
  \/ \E i \in Procs : RpcResponse(i)
       /\ delivered' = NoDelivery
       /\ UNCHANGED <<gvars, svars, bvars, dvars, evars, transactionIds, transactionInfo, infos>>
  \/ \E i \in Procs : FetchForkInfoResume(i)
       /\ delivered' = NoDelivery
       /\ UNCHANGED <<gvars, svars, bvars, dvars, evars, kvars, transactionInfo, infos>>
  \/ \E i \in Procs : FetchForkInfoResponse(i)
       /\ delivered' = NoDelivery
       /\ UNCHANGED <<gvars, svars, bvars, dvars, evars, globalHead, transactionInfo, infos>>
  \/ \E i \in Procs : TimerFire(i)
       /\ delivered' = NoDelivery
       /\ UNCHANGED <<gvars, svars, bvars, dvars, evars, kvars, transactionInfo, infos>>
  \/ \E i \in Procs : TimerResponse(i)
       /\ delivered' = NoDelivery
       /\ UNCHANGED <<gvars, svars, bvars, dvars, evars, kvars, transactionInfo, infos>>
  \/ \E p \in 1..Len(promises) : CreateForkResponse(p)
       /\ delivered' = NoDelivery
       /\ UNCHANGED <<gvars, svars, bvars, dvars, evars, globalHead, transactionInfo, infos>>
  \/ \E h \in KnownHashes : GetTransactionInfo(h)
       /\ UNCHANGED <<gvars, svars, bvars, dvars, evars, kvars>>
  \/ \E q \in 1..Len(infos), ok \in BOOLEAN : TransactionInfoResponse(q, ok)
       /\ UNCHANGED <<gvars, svars, bvars, dvars, evars, kvars>>
  \/ \E i \in Procs : GetTransactionInfoResume(i)
       /\ UNCHANGED <<gvars, svars, bvars, dvars, evars, kvars>>
  \/ Refork
       /\ delivered' = NoDelivery
       /\ UNCHANGED <<gvars, svars, bvars, dvars, evars, kvars, transactionInfo, infos>>
  \/ \E i \in Procs : DeleteForkResume(i)
       /\ delivered' = NoDelivery
       /\ UNCHANGED <<gvars, svars, bvars, dvars, evars, kvars, transactionInfo, infos>>
  \/ \E i \in Procs : DeleteForkResponse(i)
       /\ delivered' = NoDelivery
       /\ UNCHANGED <<gvars, svars, bvars, dvars, evars, kvars, transactionInfo, infos>>
  \/ \E i \in Procs : ReforkResume(i)
       /\ delivered' = NoDelivery
       /\ UNCHANGED <<gvars, svars, bvars, dvars, evars, kvars, transactionInfo, infos>>
  \/ \E f \in 1..Len(promises) : ServerDelete(f)
       /\ delivered' = NoDelivery
       /\ UNCHANGED <<gvars, svars, bvars, dvars, evars, kvars, transactionInfo, infos>>

\* requests on a provider whose fork RPC and fork creation can fail
FailuresNext ==
  \/ \E m \in Methods : Request(m)
       /\ delivered' = NoDelivery
       /\ UNCHANGED <<gvars, svars, bvars, dvars, evars, kvars, transactionInfo, infos>>
  \/ \E i \in Procs : LiveResponse(i)
       /\ delivered' = NoDelivery
       /\ UNCHANGED <<gvars, svars, bvars, dvars, evars, kvars, transactionInfo, infos>>
  \/ \E i \in Procs : RequestResume(i)
       /\ delivered' = NoDelivery
       /\ UNCHANGED <<gvars, svars, bvars, dvars, evars, kvars, transactionInfo, infos>>
  \/ \E i \in Procs : RequestRejected(i)
       /\ UNCHANGED <<gvars, svars, bvars, dvars, evars, kvars, transactionInfo, infos>>
  \/ \E i \in Procs : RpcResponse(i)
       /\ delivered' = NoDelivery
       /\ UNCHANGED <<gvars, svars, bvars, dvars, evars, transactionIds, transactionInfo, infos>>
  \/ \E i \in Procs, e \in UpstreamErrors : RpcError(i, e)
       /\ UNCHANGED <<gvars, svars, bvars, dvars, evars, kvars, transactionInfo, infos>>
  \/ \E i \in Procs : FetchForkInfoResume(i)
       /\ delivered' = NoDelivery
       /\ UNCHANGED <<gvars, svars, bvars, dvars, evars, kvars, transactionInfo, infos>>
  \/ \E i \in Procs : FetchForkInfoResponse(i)
       /\ delivered' = NoDelivery
       /\ UNCHANGED <<gvars, svars, bvars, dvars, evars, globalHead, transactionInfo, infos>>
  \/ \E i \in Procs : TimerFire(i)
       /\ delivered' = NoDelivery
       /\ UNCHANGED <<gvars, svars, bvars, dvars, evars, kvars, transactionInfo, infos>>
  \/ \E i \in Procs : TimerResponse(i)
       /\ delivered' = NoDelivery
       /\ UNCHANGED <<gvars, svars, bvars, dvars, evars, kvars, transactionInfo, infos>>
  \/ \E p \in 1..Len(promises) : CreateForkResponse(p)
       /\ delivered' = NoDelivery
       /\ UNCHANGED <<gvars, svars, bvars, dvars, evars, globalHead, transactionInfo, infos>>
  \/ \E p \in 1..Len(promises) : CreateForkFailure(p)
       /\ delivered' = NoDelivery
       /\ UNCHANGED <<gvars, svars, bvars, dvars, evars, kvars, transactionInfo, infos>>

TenderlyNext ==
  \/ \E m \in Methods : Request(m) /\ UNCHANGED <<gvars, svars, bvars, dvars, evars, kvars, ivars>>
  \/ Refork /\ UNCHANGED <<gvars, svars, bvars, dvars, evars, kvars, ivars>>
  \/ DeleteFork /\ UNCHANGED <<gvars, svars, bvars, dvars, evars, kvars, ivars>>
  \/ \E i \in Procs : LiveResponse(i) /\ UNCHANGED <<gvars, svars, bvars, dvars, evars, kvars, ivars>>
  \/ \E i \in Procs : RequestResume(i) /\ UNCHANGED <<gvars, svars, bvars, dvars, evars, kvars, ivars>>
  \/ \E i \in Procs : RpcResponse(i) /\ UNCHANGED <<gvars, svars, bvars, dvars, evars, ivars, transactionIds>>
  \/ \E i \in Procs : FetchForkInfoResume(i) /\ UNCHANGED <<gvars, svars, bvars, dvars, evars, kvars, ivars>>
  \/ \E i \in Procs : FetchForkInfoResponse(i) /\ UNCHANGED <<gvars, svars, bvars, dvars, evars, ivars, globalHead>>
  \/ \E i \in Procs : TimerFire(i) /\ UNCHANGED <<gvars, svars, bvars, dvars, evars, kvars, ivars>>
  \/ \E i \in Procs : TimerResponse(i) /\ UNCHANGED <<gvars, svars, bvars, dvars, evars, kvars, ivars>>
  \/ \E i \in Procs : DeleteForkResume(i) /\ UNCHANGED <<gvars, svars, bvars, dvars, evars, kvars, ivars>>
  \/ \E i \in Procs : DeleteForkResponse(i) /\ UNCHANGED <<gvars, svars, bvars, dvars, evars, kvars, ivars>>
  \/ \E i \in Procs : ReforkResume(i) /\ UNCHANGED <<gvars, svars, bvars, dvars, evars, kvars, ivars>>
  \/ \E p \in 1..Len(promises) : CreateForkResponse(p) /\ UNCHANGED <<gvars, svars, bvars, dvars, evars, ivars, globalHead>>
  \/ \E f \in 1..Len(promises) : ServerDelete(f) /\ UNCHANGED <<gvars, svars, bvars, dvars, evars, kvars, ivars>>

\* ------------------------------------------------------------------------
\* The message bridges
\* ------------------------------------------------------------------------
\* Windows: "host" is the extension page (window.top), "frame" the Ganache
\* iframe, "other" any other window that can post to them (the page being
\* browsed, for one).  An envelope is what a MessageEvent carries: the window
\* it is delivered to, event.source, the tag set in event.data, messageId
\* (-1: none) and whether event.data.error is set.

Envelope(to, source, tag, messageId, error) ==
  [to |-> to, source |-> source, tag |-> tag, messageId |-> messageId,
   error |-> error]

Post(bag, e) == bag (+) SetToBag({e})

NoEnvelope == Envelope("", "", "", -1, FALSE)

\* What the latest bridge step did, for the properties to read:
\*   at:        "host" | "frame" (a message event there), "handleRequest" |
\*              "dispatcher" (such a call finished), "" (any other step)
\*   env:       the envelope delivered
\*   source:    GanacheBridgeHost.source before the step
\*   outcome:   what handleMessage did
\*   forwarded: the target provider's request() was called
\*   pending:   ids of the provider's calls pending before the step
\*   settled:   ids of the calls the envelope settled, one entry per call
\*   messageId, failed, posted: the call that finished, whether its target
\*              provider failed, and the envelopes it posted
NoLast ==
  [at |-> "", env |-> NoEnvelope, source |-> "none", outcome |-> "",
   forwarded |-> FALSE, pending |-> <<>>, settled |-> <<>>, messageId |-> -1,
   failed |-> FALSE, posted |-> {}]

BridgeInit ==
  /\ channel = EmptyBag
  /\ hostSource = "none"
  /\ bridgeReady = FALSE
  /\ hostCalls = <<>>
  /\ gpMessageId = 0
  /\ gpCalls = <<>>
  /\ eipMessageId = 0
  /\ eipCalls = <<>>
  /\ frameState = "loading"
  /\ frameCalls = <<>>
  /\ nForged = 0
  /\ last = NoLast
  /\ dbDelete = "pending"
  /\ retired = <<>>
  /\ nProviders = 0

\* gpCalls, eipCalls: the currentMessageId of each request() call whose
\* listener is registered, in call order.

RECURSIVE Without(_, _)
Without(calls, hit) ==
  IF calls = <<>> THEN <<>>
  ELSE LET rest == Without(Tail(calls), {k - 1 : k \in hit \ {1}})
       IN IF 1 \in hit THEN rest ELSE <<Head(calls)>> \o rest

RECURSIVE Picked(_, _)
Picked(calls, hit) ==
  IF calls = <<>> THEN <<>>
  ELSE LET rest == Picked(Tail(calls), {k - 1 : k \in hit \ {1}})
       IN IF 1 \in hit THEN <<Head(calls)>> \o rest ELSE rest

\* ---- the iframe (ConnectionBubble/index.tsx:52-165)

\* the init envelope of the iframe
FrameInit == Envelope("host", "frame", "init", -1, FALSE)

\* setupFork, were it run when the deletion request fails as well
SetupForkOnError ==
  /\ dbDelete = "pending"
  /\ dbDelete' \in {"success", "error"}
  /\ frameState = "loading"
  /\ frameState' = "ready"
  /\ channel' = Post(Post(channel, FrameInit), FrameInit)
  /\ last' = NoLast
  /\ UNCHANGED <<hostSource, bridgeReady, hostCalls, gpMessageId, gpCalls,
                 eipMessageId, eipCalls, frameCalls, nForged, retired,
                 nProviders>>

\* index.tsx:162-165 and setupFork: the deletion request succeeds and its
\* onsuccess handler runs: the Eip1193Provider is constructed (it posts
\* init), the dispatcher is installed, and init is posted again
SetupFork ==
  /\ dbDelete = "pending"
  /\ dbDelete' = "success"
  /\ frameState = "loading"
  /\ frameState' = "ready"
  /\ channel' = Post(Post(channel, FrameInit), FrameInit)
  /\ last' = NoLast
  /\ UNCHANGED <<hostSource, bridgeReady, hostCalls, gpMessageId, gpCalls,
                 eipMessageId, eipCalls, frameCalls, nForged, retired,
                 nProviders>>

\* index.tsx:162: the deletion request fails; it has no onerror handler
DeleteDatabaseError ==
  /\ dbDelete = "pending"
  /\ dbDelete' = "error"
  /\ last' = NoLast
  /\ UNCHANGED <<channel, hostSource, bridgeReady, hostCalls, gpMessageId,
                 gpCalls, eipMessageId, eipCalls, frameState, frameCalls,
                 nForged, retired, nProviders>>

\* index.tsx:78-79: the id a call gets and the counter afterwards
EipNextId(messageId) == messageId + 1

\* Eip1193Provider.request: Ganache asks the host for chain state
EipRequest ==
  /\ frameState = "ready"
  /\ gpMessageId + eipMessageId < MaxRequests
  /\ eipMessageId' = EipNextId(eipMessageId)
  /\ channel' = Post(channel, Envelope("host", "frame", "requestFromGanache",
                                       eipMessageId, FALSE))
  /\ eipCalls' = Append(eipCalls, eipMessageId)
  /\ last' = NoLast
  /\ UNCHANGED <<hostSource, bridgeReady, hostCalls, gpMessageId, gpCalls,
                 frameState, frameCalls, nForged>>

\* index.tsx:96: the listener of the call with id currentMessageId
EipMatches(currentMessageId, e) ==
  e.tag = "responseToGanache" /\ e.messageId = currentMessageId

\* the Eip1193Provider calls (by position) whose listener takes the envelope
EipHits(calls, e) == {k \in 1..Len(calls) : EipMatches(calls[k], e)}

\* a message event in the iframe: every listener gets it.  The dispatcher
\* (there once setupFork has run) takes any zodiacPilotGanacheRequest and
\* calls the Ganache provider; the listeners of pending Eip1193Provider
\* calls take the responses.
DeliverFrame(e) ==
  /\ BagIn(e, channel)
  /\ e.to = "frame"
  /\ channel' = channel (-) SetToBag({e})
  /\ frameCalls' = IF frameState = "ready" /\ e.tag = "ganacheRequest"
                     THEN Append(frameCalls, e.messageId)
                     ELSE frameCalls
  /\ LET hit == EipHits(eipCalls, e) IN
       /\ eipCalls' = Without(eipCalls, hit)
       /\ last' = [NoLast EXCEPT !.at = "frame", !.env = e,
                                 !.forwarded = (frameCalls' # frameCalls),
                                 !.pending = eipCalls,
                                 !.settled = Picked(eipCalls, hit)]
  /\ UNCHANGED <<hostSource, bridgeReady, hostCalls, gpMessageId, gpCalls,
                 eipMessageId, frameState, nForged>>

\* index.tsx:139-148: what the dispatcher posts once the Ganache provider
\* has settled its call; a rejection leaves the listener at the await
DispatcherPosts(messageId, ok) ==
  IF ok THEN {Envelope("host", "frame", "ganacheResponse", messageId, FALSE)}
        ELSE {}

\* the Ganache provider settles a dispatcher call
GanacheRespond(k, ok) ==
  /\ k \in 1..Len(frameCalls)
  /\ channel' = channel (+) SetToBag(DispatcherPosts(frameCalls[k], ok))
  /\ last' = [NoLast EXCEPT !.at = "dispatcher", !.messageId = frameCalls[k],
                            !.failed = ~ok,
                            !.posted = DispatcherPosts(frameCalls[k], ok)]
  /\ frameCalls' = RemoveAt(frameCalls, k)
  /\ UNCHANGED <<hostSource, bridgeReady, hostCalls, gpMessageId, gpCalls,
                 eipMessageId, eipCalls, frameState, nForged>>

\* ---- the extension page (part_001)

\* part_001:148-149
GanacheNextId(messageId) == messageId + 1

\* GanacheProvider.request, were every call to take the id of the first
GanacheRequestSameId ==
  /\ gpMessageId + eipMessageId < MaxRequests
  /\ gpMessageId' = GanacheNextId(gpMessageId)
  /\ channel' = Post(channel, Envelope("frame", "host", "ganacheRequest",
                                       0, FALSE))
  /\ gpCalls' = Append(gpCalls, 0)
  /\ last' = NoLast
  /\ UNCHANGED <<hostSource, bridgeReady, hostCalls, eipMessageId, eipCalls,
                 frameState, frameCalls, nForged>>

\* GanacheProvider.request
GanacheRequest ==
  /\ gpMessageId + eipMessageId < MaxRequests
  /\ gpMessageId' = GanacheNextId(gpMessageId)
  /\ channel' = Post(channel, Envelope("frame", "host", "ganacheRequest",
                                       gpMessageId, FALSE))
  /\ gpCalls' = Append(gpCalls, gpMessageId)
  /\ last' = NoLast
  /\ UNCHANGED <<hostSource, bridgeReady, hostCalls, eipMessageId, eipCalls,
                 frameState, frameCalls, nForged>>

\* the listener, were it to look at the tag only
GanacheMatchesAnyId(currentMessageId, e) == e.tag = "ganacheResponse"

\* part_001:164: the listener of the call with id currentMessageId
GanacheMatches(currentMessageId, e) ==
  e.tag = "ganacheResponse" /\ e.messageId = currentMessageId

\* the GanacheProvider calls (by position) whose listener takes the envelope
GanacheHits(calls, e) == {k \in 1..Len(calls) : GanacheMatches(calls[k], e)}

\* assertConsistentSource, were it to let any sender pass before the handshake
SourceMismatchOnceSet(eventSource, source) ==
  source # "none" /\ eventSource # source

\* part_001:131-135: whether assertConsistentSource throws
SourceMismatch(eventSource, source) == eventSource # source

\* GanacheBridgeHost.handleMessage: what it does with an envelope, given the
\* recorded source: the source recorded afterwards, whether
\* provider.request is called, and how the call ends
HandleMessage(e, source) ==
  IF e.tag = "init" THEN
    [source |-> e.source, forwarded |-> FALSE, outcome |-> "ready"]
  ELSE IF e.tag = "requestFromGanache" THEN
    IF SourceMismatch(e.source, source) THEN
      [source |-> source, forwarded |-> FALSE,
       outcome |-> "unexpected message source"]
    ELSE IF source = "none" THEN
      [source |-> source, forwarded |-> FALSE, outcome |-> "source must be set"]
    ELSE
      [source |-> source, forwarded |-> TRUE, outcome |-> "forwarded"]
  ELSE
    [source |-> source, forwarded |-> FALSE, outcome |-> "ignored"]

\* a message event in the extension page: GanacheBridgeHost.handleMessage
\* and the listeners of the pending GanacheProvider calls get it
DeliverHost(e) ==
  /\ BagIn(e, channel)
  /\ e.to = "host"
  /\ channel' = channel (-) SetToBag({e})
  /\ LET did == HandleMessage(e, hostSource)
         hit == GanacheHits(gpCalls, e)
     IN
       /\ hostSource' = did.source
       /\ bridgeReady' = (bridgeReady \/ did.outcome = "ready")
       /\ hostCalls' = IF did.forwarded
                         THEN Append(hostCalls, e.messageId)
                         ELSE hostCalls
       /\ gpCalls' = Without(gpCalls, hit)
       /\ last' = [NoLast EXCEPT !.at = "host", !.env = e,
                                 !.source = hostSource,
                                 !.outcome = did.outcome,
                                 !.forwarded = (hostCalls' # hostCalls),
                                 !.posted = BagToSet(channel' (-) channel),
                                 !.pending = gpCalls,
                                 !.settled = Picked(gpCalls, hit)]
  /\ UNCHANGED <<gpMessageId, eipMessageId, eipCalls, frameState, frameCalls,
                 nForged>>

\* part_001:92-108: what handleRequest posts once the wallet provider has
\* settled its call: the result or the error, to this.source
HandleRequestPosts(messageId, ok, source) ==
  {Envelope(source, "host", "responseToGanache", messageId, ~ok)}

\* the wallet provider settles a handleRequest call
WalletRespond(k, ok) ==
  /\ k \in 1..Len(hostCalls)
  /\ channel' = channel (+) SetToBag(HandleRequestPosts(hostCalls[k], ok, hostSource))
  /\ last' = [NoLast EXCEPT !.at = "handleRequest", !.messageId = hostCalls[k],
                            !.failed = ~ok, !.source = hostSource,
                            !.posted = HandleRequestPosts(hostCalls[k], ok, hostSource)]
  /\ hostCalls' = RemoveAt(hostCalls, k)
  /\ UNCHANGED <<hostSource, bridgeReady, gpMessageId, gpCalls, eipMessageId,
                 eipCalls, frameState, frameCalls, nForged>>

\* part_001:33-45: the live provider changes; the effect's cleanup removes
\* the listener of the old GanacheBridgeHost and the effect installs a new
\* one, whose source is undefined.  bridgeReady is state of the component
\* and stays.  The handleRequest calls of the old host go on, with the
\* source it had recorded.
ProviderChange ==
  /\ nProviders < MaxProviderChanges
  /\ nProviders' = nProviders + 1
  /\ retired' = retired \o [k \in 1..Len(hostCalls) |->
                              [messageId |-> hostCalls[k], source |-> hostSource]]
  /\ hostCalls' = <<>>
  /\ hostSource' = "none"
  /\ last' = NoLast
  /\ UNCHANGED <<channel, bridgeReady, gpMessageId, gpCalls, eipMessageId,
                 eipCalls, frameState, frameCalls, nForged, dbDelete>>

\* the wallet provider settles a handleRequest call of a replaced host
RetiredRespond(k, ok) ==
  /\ k \in 1..Len(retired)
  /\ LET posted == HandleRequestPosts(retired[k].messageId, ok, retired[k].source)
     IN /\ channel' = channel (+) SetToBag(posted)
        /\ last' = [NoLast EXCEPT !.at = "handleRequest",
                                  !.messageId = retired[k].messageId,
                                  !.failed = ~ok, !.source = retired[k].source,
                                  !.posted = posted]
  /\ retired' = RemoveAt(retired, k)
  /\ UNCHANGED <<hostSource, bridgeReady, hostCalls, gpMessageId, gpCalls,
                 eipMessageId, eipCalls, frameState, frameCalls, nForged,
                 dbDelete, nProviders>>

\* ---- any other window

\* the message ids the other window puts into its envelopes: the id of
\* the first request of a provider
ForgedIds == {0}

\* the envelopes some listener of the window they are posted to looks at
Forgeable ==
  {Envelope("host", "other", "init", -1, FALSE)}
  \cup {Envelope(w[1], "other", w[2], id, FALSE) :
          w \in {<<"host", "requestFromGanache">>, <<"host", "ganacheResponse">>,
                 <<"frame", "ganacheRequest">>, <<"frame", "responseToGanache">>},
          id \in ForgedIds}

OtherPost(e) ==
  /\ nForged < MaxForged
  /\ nForged' = nForged + 1
  /\ channel' = Post(channel, e)
  /\ last' = NoLast
  /\ UNCHANGED <<hostSource, bridgeReady, hostCalls, gpMessageId, gpCalls,
                 eipMessageId, eipCalls, frameState, frameCalls>>

\* an envelope posted to the other window: no listener of the model there
DeliverOther(e) ==
  /\ BagIn(e, channel)
  /\ e.to = "other"
  /\ channel' = channel (-) SetToBag({e})
  /\ last' = NoLast
  /\ UNCHANGED <<hostSource, bridgeReady, hostCalls, gpMessageId, gpCalls,
                 eipMessageId, eipCalls, frameState, frameCalls, nForged>>

InFlight == BagToSet(channel)

BridgeNext ==
  \/ SetupFork /\ UNCHANGED <<tvars, dvars, evars, kvars, ivars, svars>>
  \/ DeleteDatabaseError /\ UNCHANGED <<tvars, dvars, evars, kvars, ivars, svars>>
  \/ EipRequest /\ UNCHANGED <<tvars, dvars, evars, kvars, ivars, gvars, svars>>
  \/ GanacheRequest /\ UNCHANGED <<tvars, dvars, evars, kvars, ivars, gvars, svars>>
  \/ \E e \in InFlight : DeliverFrame(e) /\ UNCHANGED <<tvars, dvars, evars, kvars, ivars, gvars, svars>>
  \/ \E e \in InFlight : DeliverHost(e) /\ UNCHANGED <<tvars, dvars, evars, kvars, ivars, gvars, svars>>
  \/ \E e \in InFlight : DeliverOther(e) /\ UNCHANGED <<tvars, dvars, evars, kvars, ivars, gvars, svars>>
  \/ \E k \in 1..Len(frameCalls), ok \in BOOLEAN :
       GanacheRespond(k, ok) /\ UNCHANGED <<tvars, dvars, evars, kvars, ivars, gvars, svars>>
  \/ \E k \in 1..Len(hostCalls), ok \in BOOLEAN :
       WalletRespond(k, ok) /\ UNCHANGED <<tvars, dvars, evars, kvars, ivars, gvars, svars>>
  \/ \E e \in Forgeable : OtherPost(e) /\ UNCHANGED <<tvars, dvars, evars, kvars, ivars, gvars, svars>>

\* the bridges, with changes of the live provider
GanacheNext ==
  \/ SetupFork /\ UNCHANGED <<tvars, dvars, evars, kvars, ivars, svars>>
  \/ DeleteDatabaseError /\ UNCHANGED <<tvars, dvars, evars, kvars, ivars, svars>>
  \/ ProviderChange /\ UNCHANGED <<tvars, dvars, evars, kvars, ivars, svars>>
  \/ \E k \in 1..Len(retired), ok \in BOOLEAN :
       RetiredRespond(k, ok) /\ UNCHANGED <<tvars, dvars, evars, kvars, ivars, svars>>
  \/ EipRequest /\ UNCHANGED <<tvars, dvars, evars, kvars, ivars, gvars, svars>>
  \/ GanacheRequest /\ UNCHANGED <<tvars, dvars, evars, kvars, ivars, gvars, svars>>
  \/ \E e \in InFlight : DeliverFrame(e) /\ UNCHANGED <<tvars, dvars, evars, kvars, ivars, gvars, svars>>
  \/ \E e \in InFlight : DeliverHost(e) /\ UNCHANGED <<tvars, dvars, evars, kvars, ivars, gvars, svars>>
  \/ \E e \in InFlight : DeliverOther(e) /\ UNCHANGED <<tvars, dvars, evars, kvars, ivars, gvars, svars>>
  \/ \E k \in 1..Len(frameCalls), ok \in BOOLEAN :
       GanacheRespond(k, ok) /\ UNCHANGED <<tvars, dvars, evars, kvars, ivars, gvars, svars>>
  \/ \E k \in 1..Len(hostCalls), ok \in BOOLEAN :
       WalletRespond(k, ok) /\ UNCHANGED <<tvars, dvars, evars, kvars, ivars, gvars, svars>>
  \/ \E e \in Forgeable : OtherPost(e) /\ UNCHANGED <<tvars, dvars, evars, kvars, ivars, gvars, svars>>

\* ------------------------------------------------------------------------
\* The transactions drawer and the Forking Provider
\* ------------------------------------------------------------------------
\* The provider the drawer and the application use is the ForkProvider that
\* ProvideProvider builds around the TenderlyProvider.  ForkProvider and the
\* ledger's reducer are modelled after sections 4.3 and 4.5 of the design.

\* rerun: the reforkAndRerun call
\*   pc:   "idle" | "refork" (at `await provider.refork()`) | "send" (at the
\*         `await provider.request(...)` of the loop) | "done" | "failed"
\*   todo: the ids of newTransactions as the call found them
\*   i:    number of sends issued so far
\*   fork: the fork that the refork() of this call provisions
NoRerun == [pc |-> "idle", todo |-> <<>>, i |-> 0, fork |-> 0]

\* decodes[id + 1]: "raw" (at the first `await decodeSingle`), "abi" (at the
\*   second, which looks the ABI up), "done" (DECODE_TRANSACTION dispatched),
\*   "failed" (the call has thrown after APPEND_RAW_TRANSACTION)
DrawerInit ==
  /\ newTransactions = <<>>
  /\ nextTxId = 0
  /\ rerun = NoRerun
  /\ decodes = <<>>

\* a ledger entry (section 3, LedgerEntry): input is the representation
\* ("raw" | "decoded"), transactionHash is <<>> until confirmed, value is
\* the hex string (the digits after 0x) that encodeSingle gives for the input
Entry(id) ==
  [id |-> id, input |-> "raw", status |-> "recorded", transactionHash |-> <<>>,
   value |-> <<0, 0>>]

Ids(entries) == [k \in 1..Len(entries) |-> entries[k].id]

HasEntry(entries, id) == \E k \in 1..Len(entries) : entries[k].id = id

\* section 4.3, state "received": APPEND_RAW_TRANSACTION
AppendTransaction(entries, id) == Append(entries, Entry(id))

\* section 4.3, state "decoding" over: DECODE_TRANSACTION updates the entry
\* in place; the status does not regress
DecodeTransaction(entries, id) ==
  [k \in 1..Len(entries) |->
     IF entries[k].id = id
       THEN [entries[k] EXCEPT
               !.input = "decoded",
               !.status = IF @ = "recorded" THEN "decoded" ELSE @]
       ELSE entries[k]]

\* section 4.3, state "confirmed": CONFIRM_TRANSACTION attaches the hash
ConfirmTransaction(entries, id, transactionHash) ==
  [k \in 1..Len(entries) |->
     IF entries[k].id = id
       THEN [entries[k] EXCEPT !.status = "confirmed",
                               !.transactionHash = transactionHash]
       ELSE entries[k]]

\* section 4.5, remove-by-id as the drawer uses it: the entry with this id
\* and every entry after it are dropped
RemoveTransaction(entries, id) ==
  LET at == {k \in 1..Len(entries) : entries[k].id = id}
  IN IF at = {} THEN entries
     ELSE SubSeq(entries, 1, (CHOOSE k \in at : \A j \in at : k <= j) - 1)

\* ForkProvider.request of eth_sendTransaction: the send gets its id,
\* onBeforeTransactionSend is called (and runs up to its first await) and
\* the call is forwarded to the Fork Backend
ForkSend(ps, drawer) ==
  /\ RequestFrom(ps, "eth_sendTransaction", drawer, nextTxId)
  /\ nextTxId' = nextTxId + 1
  /\ decodes' = Append(decodes, "raw")
  /\ UNCHANGED newTransactions

\* the application sends a transaction
Send ==
  /\ nextTxId < MaxSends
  /\ ForkSend(procs, FALSE)
  /\ UNCHANGED rerun

\* an onBeforeTransactionSend that tests the chain id before it dispatches
AppendRawChecksFirst(id, chainIdKnown) ==
  /\ decodes[id + 1] = "raw"
  /\ ~MicrotaskPending
  /\ newTransactions' = IF chainIdKnown THEN AppendTransaction(newTransactions, id)
                                       ELSE newTransactions
  /\ decodes' = [decodes EXCEPT ![id + 1] = IF chainIdKnown THEN "abi" ELSE "failed"]
  /\ UNCHANGED <<tvars, nextTxId, rerun>>

\* onBeforeTransactionSend after its first `await decodeSingle(...)`:
\* APPEND_RAW_TRANSACTION is dispatched; without a chain id it throws, else
\* it goes on to the second decodeSingle
AppendRaw(id, chainIdKnown) ==
  /\ decodes[id + 1] = "raw"
  /\ ~MicrotaskPending
  /\ newTransactions' = AppendTransaction(newTransactions, id)
  /\ decodes' = [decodes EXCEPT ![id + 1] = IF chainIdKnown THEN "abi" ELSE "failed"]
  /\ UNCHANGED <<tvars, nextTxId, rerun>>

\* onBeforeTransactionSend after its second `await decodeSingle(...)`:
\* DECODE_TRANSACTION is dispatched, unless the decode has failed
Decoded(id, ok) ==
  /\ decodes[id + 1] = "abi"
  /\ ~MicrotaskPending
  /\ newTransactions' = IF ok THEN DecodeTransaction(newTransactions, id)
                              ELSE newTransactions
  /\ decodes' = [decodes EXCEPT ![id + 1] = IF ok THEN "done" ELSE "failed"]
  /\ UNCHANGED <<tvars, nextTxId, rerun>>

\* an onTransactionSent that leaves the hash out of CONFIRM_TRANSACTION
ForkResumeWithoutHash(k) ==
  /\ procs[k].tx # -1
  /\ procs[k].pc \in {"resolved", "rejected"}
  /\ newTransactions' =
       IF procs[k].pc = "resolved"
         THEN ConfirmTransaction(newTransactions, procs[k].tx, <<>>)
         ELSE newTransactions
  /\ procs' = IF procs[k].drawer THEN [procs EXCEPT ![k].tx = -1]
                                 ELSE RemoveAt(procs, k)
  /\ UNCHANGED <<forkProviderPromise, forkId, blockNumber, promises, heads,
                 deletes, gone, nCalls, answered, lastDel, reforked, nResets,
                 nextTxId, rerun, decodes>>

\* ForkProvider.request after `await this.provider.request(...)`: with a
\* result onTransactionSent is called, which dispatches CONFIRM_TRANSACTION;
\* then the call returns to its caller
ForkResume(k) ==
  /\ procs[k].tx # -1
  /\ procs[k].pc \in {"resolved", "rejected"}
  /\ newTransactions' =
       IF procs[k].pc = "resolved"
         THEN ConfirmTransaction(newTransactions, procs[k].tx, procs[k].result)
         ELSE newTransactions
  /\ procs' = IF procs[k].drawer THEN [procs EXCEPT ![k].tx = -1]
                                 ELSE RemoveAt(procs, k)
  /\ UNCHANGED <<forkProviderPromise, forkId, blockNumber, promises, heads,
                 deletes, gone, nCalls, answered, lastDel, reforked, nResets,
                 nextTxId, rerun, decodes>>

\* reforkAndRerun up to `await provider.refork()`
ReforkAndRerun ==
  /\ rerun.pc \in {"idle", "done", "failed"}
  /\ newTransactions # <<>>
  /\ newTransactions' = RemoveTransaction(newTransactions, newTransactions[1].id)
  /\ ReforkBy(TRUE)
  /\ rerun' = [pc |-> "refork", todo |-> Ids(newTransactions), i |-> 0,
               fork |-> NewPromise]
  /\ UNCHANGED <<nextTxId, decodes>>

\* reforkAndRerun after an await: the awaited call k has returned or thrown;
\* the loop issues the next send or is over
RerunResume(k) ==
  /\ procs[k].drawer
  /\ procs[k].tx = -1
  /\ procs[k].pc \in {"resolved", "rejected"}
  /\ IF procs[k].pc = "rejected" THEN
       /\ rerun' = [rerun EXCEPT !.pc = "failed"]
       /\ procs' = RemoveAt(procs, k)
       /\ UNCHANGED <<forkProviderPromise, forkId, blockNumber, promises, heads,
                      deletes, gone, nCalls, answered, lastDel, reforked, nResets,
                      newTransactions, nextTxId, decodes>>
     ELSE IF rerun.i < Len(rerun.todo) THEN
       /\ ForkSend(RemoveAt(procs, k), TRUE)
       /\ rerun' = [rerun EXCEPT !.pc = "send", !.i = @ + 1]
     ELSE
       /\ rerun' = [rerun EXCEPT !.pc = "done"]
       /\ procs' = RemoveAt(procs, k)
       /\ UNCHANGED <<forkProviderPromise, forkId, blockNumber, promises, heads,
                      deletes, gone, nCalls, answered, lastDel, reforked, nResets,
                      newTransactions, nextTxId, decodes>>

\* Drawer/index.tsx:41-49: reforkAndRerun where the provider is not a
\* ForkProvider: REMOVE_TRANSACTION is dispatched, then the call throws
ReforkAndRerunUnsupported ==
  /\ rerun.pc \in {"idle", "done", "failed"}
  /\ newTransactions # <<>>
  /\ newTransactions' = RemoveTransaction(newTransactions, newTransactions[1].id)
  /\ rerun' = [pc |-> "failed", todo |-> Ids(newTransactions), i |-> 0,
               fork |-> 0]
  /\ UNCHANGED <<tvars, nextTxId, decodes>>

TxIds == 0..(nextTxId - 1)

\* the sends of the application through the ForkProvider and what follows
\* from them, but for the post-send timers, which touch the block number
\* only (TenderlyNext has them)
LedgerNext ==
  \/ Send /\ UNCHANGED <<gvars, svars, bvars, evars, kvars, ivars>>
  \/ \E id \in TxIds, chainIdKnown \in BOOLEAN :
       AppendRaw(id, chainIdKnown) /\ UNCHANGED <<gvars, svars, bvars, evars, kvars, ivars>>
  \/ \E id \in TxIds, ok \in BOOLEAN : Decoded(id, ok) /\ UNCHANGED <<gvars, svars, bvars, evars, kvars, ivars>>
  \/ \E k \in Procs : ForkResume(k) /\ UNCHANGED <<gvars, svars, bvars, evars, kvars, ivars>>
  \/ \E i \in Procs : RequestResume(i) /\ UNCHANGED <<gvars, svars, bvars, dvars, evars, kvars, ivars>>
  \/ \E i \in Procs : RpcResponse(i) /\ UNCHANGED <<gvars, svars, bvars, dvars, evars, ivars, transactionIds>>
  \/ \E i \in Procs : FetchForkInfoResume(i) /\ UNCHANGED <<gvars, svars, bvars, dvars, evars, kvars, ivars>>
  \/ \E i \in Procs : FetchForkInfoResponse(i) /\ UNCHANGED <<gvars, svars, bvars, dvars, evars, ivars, globalHead>>
  \/ \E p \in 1..Len(promises) : CreateForkResponse(p) /\ UNCHANGED <<gvars, svars, bvars, dvars, evars, ivars, globalHead>>

\* the drawer's "re-fork and replay" next to the sends of the application;
\* the sends are taken without a chain id, so that onBeforeTransactionSend
\* is over after APPEND_RAW_TRANSACTION (LedgerNext has the slow decode),
\* and without the post-send timers (TenderlyNext has them)
DrawerNext ==
  \/ Send /\ UNCHANGED <<gvars, svars, bvars, evars, kvars, ivars>>
  \/ \E id \in TxIds : AppendRaw(id, FALSE) /\ UNCHANGED <<gvars, svars, bvars, evars, kvars, ivars>>
  \/ \E k \in Procs : ForkResume(k) /\ UNCHANGED <<gvars, svars, bvars, evars, kvars, ivars>>
  \/ ReforkAndRerun /\ UNCHANGED <<gvars, svars, bvars, evars, kvars, ivars>>
  \/ \E k \in Procs : RerunResume(k) /\ UNCHANGED <<gvars, svars, bvars, evars, kvars, ivars>>
  \/ \E i \in Procs : RequestResume(i) /\ UNCHANGED <<gvars, svars, bvars, dvars, evars, kvars, ivars>>
  \/ \E i \in Procs : RpcResponse(i) /\ UNCHANGED <<gvars, svars, bvars, dvars, evars, ivars, transactionIds>>
  \/ \E i \in Procs : FetchForkInfoResume(i) /\ UNCHANGED <<gvars, svars, bvars, dvars, evars, kvars, ivars>>
  \/ \E i \in Procs : FetchForkInfoResponse(i) /\ UNCHANGED <<gvars, svars, bvars, dvars, evars, ivars, globalHead>>
  \/ \E i \in Procs : DeleteForkResume(i) /\ UNCHANGED <<gvars, svars, bvars, dvars, evars, kvars, ivars>>
  \/ \E i \in Procs : DeleteForkResponse(i) /\ UNCHANGED <<gvars, svars, bvars, dvars, evars, kvars, ivars>>
  \/ \E i \in Procs : ReforkResume(i) /\ UNCHANGED <<gvars, svars, bvars, dvars, evars, kvars, ivars>>
  \/ \E p \in 1..Len(promises) : CreateForkResponse(p) /\ UNCHANGED <<gvars, svars, bvars, dvars, evars, ivars, globalHead>>
  \/ \E f \in 1..Len(promises) : ServerDelete(f) /\ UNCHANGED <<gvars, svars, bvars, dvars, evars, kvars, ivars>>

\* the drawer's "re-fork and replay" where the creation of the fork can
\* fail and the provider can be another than the ForkProvider
RerunNext ==
  \/ Send /\ UNCHANGED <<gvars, svars, bvars, evars, kvars, ivars>>
  \/ \E id \in TxIds : AppendRaw(id, FALSE) /\ UNCHANGED <<gvars, svars, bvars, evars, kvars, ivars>>
  \/ \E k \in Procs : ForkResume(k) /\ UNCHANGED <<gvars, svars, bvars, evars, kvars, ivars>>
  \/ ReforkAndRerun /\ UNCHANGED <<gvars, svars, bvars, evars, kvars, ivars>>
  \/ ReforkAndRerunUnsupported /\ UNCHANGED <<gvars, svars, bvars, evars, kvars, ivars>>
  \/ \E k \in Procs : RerunResume(k) /\ UNCHANGED <<gvars, svars, bvars, evars, kvars, ivars>>
  \/ \E i \in Procs : RequestResume(i) /\ UNCHANGED <<gvars, svars, bvars, dvars, evars, kvars, ivars>>
  \/ \E i \in Procs : RequestRejected(i)
       /\ UNCHANGED <<gvars, svars, bvars, dvars, evars, kvars, transactionInfo, infos>>
  \/ \E i \in Procs : RpcResponse(i) /\ UNCHANGED <<gvars, svars, bvars, dvars, evars, ivars, transactionIds>>
  \/ \E i \in Procs : FetchForkInfoResume(i) /\ UNCHANGED <<gvars, svars, bvars, dvars, evars, kvars, ivars>>
  \/ \E i \in Procs : FetchForkInfoResponse(i) /\ UNCHANGED <<gvars, svars, bvars, dvars, evars, ivars, globalHead>>
  \/ \E i \in Procs : DeleteForkResume(i) /\ UNCHANGED <<gvars, svars, bvars, dvars, evars, kvars, ivars>>
  \/ \E i \in Procs : DeleteForkRejected(i) /\ UNCHANGED <<gvars, svars, bvars, dvars, evars, kvars, ivars>>
  \/ \E i \in Procs : DeleteForkResponse(i) /\ UNCHANGED <<gvars, svars, bvars, dvars, evars, kvars, ivars>>
  \/ \E i \in Procs : ReforkResume(i) /\ UNCHANGED <<gvars, svars, bvars, dvars, evars, kvars, ivars>>
  \/ \E i \in Procs : ReforkRejected(i) /\ UNCHANGED <<gvars, svars, bvars, dvars, evars, kvars, ivars>>
  \/ \E p \in 1..Len(promises) : CreateForkResponse(p) /\ UNCHANGED <<gvars, svars, bvars, dvars, evars, ivars, globalHead>>
  \/ \E p \in 1..Len(promises) : CreateForkFailure(p) /\ UNCHANGED <<gvars, svars, bvars, dvars, evars, kvars, ivars>>
  \/ \E f \in 1..Len(promises) : ServerDelete(f) /\ UNCHANGED <<gvars, svars, bvars, dvars, evars, kvars, ivars>>

\* ------------------------------------------------------------------------
\* The batch encoder: formatValue, submitTransactions, copyTransactionData
\* ------------------------------------------------------------------------

\* A hex string is the sequence of its digits after 0x, each digit a number
\* in 0..15; the digits 0, 1 and a are used.
HexDigits == {0, 1, 10}

HexStrings(n) == UNION {[1..k -> HexDigits] : k \in 1..n}

\* BigNumber.from(value): the number a hex string denotes
RECURSIVE HexValue(_)
HexValue(s) ==
  IF s = <<>> THEN 0
  ELSE HexValue(SubSeq(s, 1, Len(s) - 1)) * 16 + s[Len(s)]

RECURSIVE Digits(_)
Digits(n) == IF n < 16 THEN <<n>> ELSE Digits(n \div 16) \o <<n % 16>>

\* BigNumber.toHexString(): whole bytes, i.e. an even number of digits
ToHexString(n) ==
  LET d == Digits(n) IN IF Len(d) % 2 = 1 THEN <<0>> \o d ELSE d

\* .replace(/^0x(0+)/, '0x')
RECURSIVE StripZeros(_)
StripZeros(s) ==
  IF s # <<>> /\ s[1] = 0 THEN StripZeros(Tail(s)) ELSE s

\* a formatValue without the replace
formatValueAsBytes(v) ==
  IF HexValue(v) = 0 THEN <<0>> ELSE ToHexString(HexValue(v))

formatValue(v) ==
  IF HexValue(v) = 0 THEN <<0>> ELSE StripZeros(ToHexString(HexValue(v)))

\* the address encodeMulti is given
MultiSendAddress == "0xA238CBeb142c10Ef7Ad8442C6D1f9E89e07e7761"

\* the contracts the entries call, by entry id
Targets == <<"0xT0", "0xT1", "0xT2", "0xT3">>

\* encodeSingle(input): the call {to, value, data} of an entry
EncodeSingle(entry) ==
  [to |-> Targets[(entry.id % Len(Targets)) + 1],
   value |-> entry.value,
   data |-> [fn |-> "call", id |-> entry.id, calls |-> <<>>]]

\* a call as multiSend packs it: operation, to, value as a 256 bit number,
\* data
Packed(tx) ==
  [operation |-> 0, to |-> tx.to, value |-> HexValue(tx.value), data |-> tx.data]

\* encodeMulti(metaTransactions, address): one call of multiSend at the
\* address, with the calls packed in their order
EncodeMulti(metaTransactions, address) ==
  [to |-> address,
   value |-> <<0, 0>>,
   data |-> [fn |-> "multiSend", id |-> -1,
             calls |-> [k \in 1..Len(metaTransactions) |->
                          Packed(metaTransactions[k])]]]

\* a batch encoder that hands every ledger to encodeMulti
BatchTransactionAlwaysMulti(entries) ==
  EncodeMulti([k \in 1..Len(entries) |-> EncodeSingle(entries[k])],
              MultiSendAddress)

\* the transaction that submitTransactions and copyTransactionData make of
\* the unsubmitted entries
BatchTransaction(entries) ==
  LET metaTransactions == [k \in 1..Len(entries) |-> EncodeSingle(entries[k])]
  IN IF Len(metaTransactions) = 1
       THEN metaTransactions[1]
       ELSE EncodeMulti(metaTransactions, MultiSendAddress)

\* wrapRequest (section 4.4): the from field is set, the rest is passed on
WrapRequest(tx) ==
  [from |-> "avatarAddress", to |-> tx.to, value |-> tx.value, data |-> tx.data]

NoOut == [op |-> "", arg |-> <<>>, result |-> <<>>]

\* submit: the submitTransactions call
\*   pc:         "idle" | "awaiting" (at `await wrappingProvider.request(...)`)
\*               | "done" | "failed"
\*   result:     the hash the wallet's request resolved with (<<>>: none)
\*   dispatched: the batchTransactionHash of each SUBMIT_TRANSACTIONS the
\*               call has dispatched
\*   returned:   what the call returned (<<>>: nothing)
\*   thrown:     the call has thrown the error of the wallet's request
NoSubmit ==
  [pc |-> "idle", result |-> <<>>, dispatched |-> <<>>, returned |-> <<>>,
   thrown |-> FALSE]

\* the hashes the wallet answers eth_sendTransaction with: transactions of
\* the live chain (fork 0)
WalletHashes == {TxHash(0, 1), TxHash(0, 2)}

SubmitInit == submit = NoSubmit

EncoderInit ==
  /\ value = <<0>>
  /\ out = NoOut

\* formatValue is applied to a value
FormatValue ==
  /\ out' = [op |-> "formatValue", arg |-> value, result |-> formatValue(value)]
  /\ UNCHANGED <<tvars, bvars, dvars, kvars, ivars, gvars, svars, value>>

\* submitTransactions up to `await wrappingProvider.request(...)`: result is
\* the transaction in the params of the eth_sendTransaction request
SubmitTransactions ==
  /\ submit.pc # "awaiting"
  /\ out' = [op |-> "submitTransactions", arg |-> newTransactions,
             result |-> BatchTransaction(newTransactions)]
  /\ submit' = [NoSubmit EXCEPT !.pc = "awaiting"]
  /\ UNCHANGED <<tvars, bvars, dvars, kvars, ivars, gvars, value>>

\* section 4.5: SUBMIT_TRANSACTIONS marks the unsubmitted entries as
\* submitted; none is left in the unsubmitted suffix
SubmitEntries(entries, batchTransactionHash) == <<>>

\* a submitTransactions that dispatches whether or not the request failed
SubmitTransactionsResumeAlwaysDispatches(ok, hash) ==
  /\ submit.pc = "awaiting"
  /\ newTransactions' = SubmitEntries(newTransactions, IF ok THEN hash ELSE <<>>)
  /\ submit' = IF ok
       THEN [submit EXCEPT !.pc = "done", !.result = hash,
                           !.dispatched = Append(@, hash), !.returned = hash]
       ELSE [submit EXCEPT !.pc = "failed", !.dispatched = Append(@, <<>>),
                           !.thrown = TRUE]
  /\ UNCHANGED <<tvars, bvars, nextTxId, rerun, decodes, kvars, ivars, gvars,
                 evars>>

\* ProvideProvider.tsx:129-147: submitTransactions after its await.  The
\* wallet's request has resolved with hash (ok) or has failed: with a hash
\* SUBMIT_TRANSACTIONS is dispatched and the hash returned, else the await
\* throws and so does the call
SubmitTransactionsResume(ok, hash) ==
  /\ submit.pc = "awaiting"
  /\ newTransactions' = IF ok THEN SubmitEntries(newTransactions, hash)
                              ELSE newTransactions
  /\ submit' = IF ok
       THEN [submit EXCEPT !.pc = "done", !.result = hash,
                           !.dispatched = Append(@, hash), !.returned = hash]
       ELSE [submit EXCEPT !.pc = "failed", !.thrown = TRUE]
  /\ UNCHANGED <<tvars, bvars, nextTxId, rerun, decodes, kvars, ivars, gvars,
                 evars>>

\* copyTransactionData: result is the request written to the clipboard
CopyTransactionData ==
  /\ out' = [op |-> "copyTransactionData", arg |-> newTransactions,
             result |-> WrapRequest(BatchTransaction(newTransactions))]
  /\ UNCHANGED <<tvars, bvars, dvars, kvars, ivars, gvars, svars, value>>

\* an entry handed to the batch encoder: decoded and confirmed
BatchEntry(k, v) ==
  [Entry(k - 1) EXCEPT !.input = "decoded", !.status = "confirmed",
                       !.transactionHash = <<1, ForkBase + k>>, !.value = v]

Init == TenderlyInit /\ BridgeInit /\ DrawerInit /\ EncoderInit /\ SubmitInit

\* a provider that has made one send, which created fork 1, and whose
\* post-send advance is over; nCalls counts the calls made from here on
InitForked ==
  /\ forkProviderPromise = 1
  /\ forkId = 1
  /\ blockNumber = ForkBase + 3
  /\ promises = <<"resolved">>
  /\ heads = <<ForkBase + 3>>
  /\ deletes = <<0>>
  /\ gone = {}
  /\ procs = <<>>
  /\ nCalls = 0
  /\ answered = [method |-> "eth_sendTransaction", noFork |-> TRUE,
                 route |-> "fork", created |-> TRUE]
  /\ lastDel = NoDel
  /\ reforked = NoRefork
  /\ nResets = 0
  /\ globalHead = {<<1, ForkBase + 1>>}
  /\ transactionIds = {<<TxHash(1, ForkBase + 1), ForkBase + 1>>}
  /\ transactionInfo = {}
  /\ infos = <<>>
  /\ delivered = NoDelivery
  /\ BridgeInit /\ DrawerInit /\ EncoderInit /\ SubmitInit

InitFormat ==
  /\ TenderlyInit /\ BridgeInit /\ DrawerInit /\ SubmitInit
  /\ value \in HexStrings(MaxDigits)
  /\ out = NoOut

\* the ledger handed to the batch encoder has up to MaxEntries unsubmitted
\* entries, with any values
InitEncode ==
  /\ TenderlyInit /\ BridgeInit
  /\ \E n \in 0..MaxEntries :
       \E values \in [1..n -> HexStrings(MaxValueDigits)] :
         newTransactions = [k \in 1..n |-> BatchEntry(k, values[k])]
  /\ nextTxId = Len(newTransactions)
  /\ rerun = NoRerun
  /\ decodes = [k \in 1..Len(newTransactions) |-> "done"]
  /\ EncoderInit
  /\ SubmitInit

EncodeNext ==
  \/ SubmitTransactions
  \/ \E ok \in BOOLEAN, hash \in WalletHashes : SubmitTransactionsResume(ok, hash)
  \/ CopyTransactionData

SpecFormat == InitFormat /\ [][FormatValue]_vars

SpecEncode == InitEncode /\ [][EncodeNext]_vars


SpecTenderly == Init /\ [][TenderlyNext]_vars

SpecBridge == Init /\ [][BridgeNext]_vars

SpecRerun == Init /\ [][RerunNext]_vars

SpecReforkInfo == InitForked /\ [][ReforkInfoNext]_vars

SpecGanache == Init /\ [][GanacheNext]_vars

SpecDrawer == Init /\ [][DrawerNext]_vars

SpecLedger == Init /\ [][LedgerNext]_vars

SpecFailures == Init /\ [][FailuresNext]_vars

SpecInfo == Init /\ [][InfoNext]_vars

\* ------------------------------------------------------------------------
\* Properties of TenderlyProvider
\* ------------------------------------------------------------------------

Forks == 1..Len(promises)

\* forks that exist on the service and for which no DELETE was issued
LiveForks == {f \in Forks : promises[f] = "resolved" /\ deletes[f] = 0}

\* C2: after refork() has resolved on a provider that had a fork F1 (and
\* until the next refork() or deleteFork() call), a DELETE has been issued
\* for F1, the new fork F2 exists, and every request made since that needs
\* a fork creates none and is sent to F2.
C2_ReforkInstallsNewFork ==
  /\ reforked.fork # 0 =>
       /\ deletes[reforked.old] >= 1
       /\ promises[reforked.fork] = "resolved"
  /\ \A i \in Procs :
       (procs[i].kind = "request" /\ procs[i].after # 0 /\ NeedsFork(procs[i].method)) =>
         /\ ~procs[i].created
         /\ procs[i].pc = "awaitFork" => procs[i].p = procs[i].after
         /\ procs[i].pc = "awaitSend" => procs[i].f = procs[i].after

\* C3: at most one fork has been created and not had a DELETE issued for it.
C3_AtMostOneLiveFork == Cardinality(LiveForks) <= 1

\* C9: on a provider with no fork, a request whose method is none of
\* eth_sendTransaction, evm_snapshot, evm_revert, eth_chainId goes to the
\* live provider and creates no fork; a request with one of the three
\* methods creates the fork when none is held, shares the creation in
\* flight otherwise, and so (without refork() or deleteFork()) one fork is
\* created at most.
C9_LazyForkCreation ==
  /\ (answered.noFork /\ answered.method \in Methods \ {"eth_chainId"}
        /\ ~NeedsFork(answered.method)) =>
       (answered.route = "live" /\ ~answered.created)
  /\ (answered.noFork /\ NeedsFork(answered.method)) => answered.created
  /\ \A i \in Procs :
       (procs[i].kind = "request" /\ procs[i].pc = "awaitFork" /\ nResets = 0) =>
         procs[i].p = 1
  /\ nResets = 0 => Len(promises) <= 1

C15_BlockNumberCache ==
  [][/\ forkId' # 0 => blockNumber' # 0
     /\ (nCalls' = nCalls + 1 /\ nResets' = nResets
          /\ answered'.method = "eth_blockNumber" /\ forkId # 0) =>
          /\ answered'.route = "cache"
          /\ procs' = procs
          /\ promises' = promises
          /\ blockNumber' = blockNumber
     /\ blockNumber' # blockNumber =>
          \/ /\ blockNumber' = ForkBase
             /\ \E p \in 1..Len(promises) :
                  promises[p] = "pending" /\ promises'[p] = "resolved"
          \/ blockNumber' = 0 /\ forkId' = 0 /\ forkId # 0
          \/ \E i \in Procs :
               /\ procs[i].pc = "infoFetch"
               /\ procs[i].method = "eth_sendTransaction"
               /\ blockNumber' = heads[procs[i].g]
          \/ \E i \in Procs :
               /\ procs[i].pc = "timerSend"
               /\ procs' = RemoveAt(procs, i)
               /\ blockNumber' = blockNumber + 2
     /\ \A i \in Procs :
          (procs[i].pc = "timerSend" /\ procs' = RemoveAt(procs, i)
             /\ procs[i].f \notin gone /\ blockNumber # 0) =>
            blockNumber' = blockNumber + 2]_vars

\* a send has completed on the fork, its advance has been carried out, and
\* an eth_blockNumber request has then been answered from the cache
C15_Witness ==
  /\ forkId # 0
  /\ answered.method = "eth_blockNumber"
  /\ answered.route = "cache"
  /\ blockNumber = ForkBase + 3
  /\ procs = <<>>

\* the calls whose provider.send(...) is not answered yet
AwaitingSend(ps) == {i \in 1..Len(ps) : ps[i].pc = "awaitSend"}

\* C17: when provider.send(...) of a request fails, the caller gets the
\* error "Error sending request to Tenderly" if the upstream error has the
\* code -32603 and the upstream error itself otherwise; the call is over
\* with this: it is not sent again and nothing is run on the fork.
C17_ErrorTranslation ==
  [][delivered'.cause = "send" =>
       /\ delivered'.upstream.code = RateLimitCode =>
            delivered'.error = Error("Error sending request to Tenderly", 0)
       /\ delivered'.upstream.code # RateLimitCode =>
            delivered'.error = delivered'.upstream
       /\ Cardinality(AwaitingSend(procs')) = Cardinality(AwaitingSend(procs)) - 1
       /\ Len(procs') = Len(procs) - 1
       /\ heads' = heads]_vars

\* a send on the fork failed with the code of rate limiting
C17_Witness ==
  /\ delivered.cause = "send"
  /\ delivered.method = "eth_sendTransaction"
  /\ delivered.upstream = Error("upstream", RateLimitCode)
  /\ delivered.error.message = "Error sending request to Tenderly"

\* the calls that have started a fork creation which has failed
Triggering(ps, proms) ==
  {i \in 1..Len(ps) :
     /\ ps[i].kind = "request"
     /\ ps[i].created
     /\ proms[IF ps[i].pc = "awaitFork" THEN ps[i].p ELSE ps[i].f] = "rejected"}

\* C18: a call that has started a fork creation which fails is still at its
\* await when the creation fails, with its continuation runnable, and its
\* next step throws the error of the creation to its caller.
C18_CreationFailureDelivered ==
  [][/\ \A i \in Triggering(procs', promises') : procs'[i].pc = "awaitFork"
     /\ Triggering(procs', promises') # {} => MicrotaskPending'
     /\ Cardinality(Triggering(procs', promises'))
            < Cardinality(Triggering(procs, promises)) =>
          /\ delivered'.call = "request"
          /\ delivered'.cause = "createFork"
          /\ delivered'.created
          /\ NeedsFork(delivered'.method)
          /\ delivered'.error = CreationError]_vars

\* the first send has got the error of the fork creation it had started
C18_Witness ==
  /\ delivered.cause = "createFork"
  /\ delivered.created
  /\ delivered.method = "eth_sendTransaction"
  /\ promises = <<"rejected">>

\* C16: for every hash there is one promise of fetchTransactionInfo at
\* most, hence one fetch of the control API at most; every
\* getTransactionInfo call for the hash awaits this promise, and when it
\* goes on it gets what this promise was settled with.
C16_TransactionInfoMemoized ==
  [][/\ \A q1, q2 \in 1..Len(infos') :
          infos'[q1].hash = infos'[q2].hash => q1 = q2
     /\ \A i \in 1..Len(procs') :
          procs'[i].pc = "txInfoAwait" =>
            /\ procs'[i].g = MapGet(transactionInfo', procs'[i].result)
            /\ procs'[i].g \in 1..Len(infos')
            /\ infos'[procs'[i].g].hash = procs'[i].result
     /\ delivered'.call = "getTransactionInfo" =>
          /\ delivered'.promise = MapGet(transactionInfo, delivered'.hash)
          /\ infos[delivered'.promise].hash = delivered'.hash
          /\ infos[delivered'.promise].state # "pending"
          /\ delivered'.ok = (infos[delivered'.promise].state = "resolved")]_vars

\* two getTransactionInfo calls for the hash of a send await the one fetch
\* that is in flight
C16_Witness ==
  \E i, j \in Procs :
    /\ i < j
    /\ procs[i].pc = "txInfoAwait"
    /\ procs[j].pc = "txInfoAwait"
    /\ procs[i].result = procs[j].result
    /\ procs[i].g = procs[j].g
    /\ infos[procs[i].g].state = "pending"
    /\ infos[procs[i].g].fetched
    /\ Len(infos) = 1

\* ------------------------------------------------------------------------
\* Properties of the transactions drawer
\* ------------------------------------------------------------------------

\* C4: the sends that reforkAndRerun issues after its refork() has resolved
\* are the entries it found, in their order, one at a time, and each of them
\* is sent to the fork that this refork() provisioned, creating no fork.
C4_ReplayOnReforkedFork ==
  /\ rerun.i <= Len(rerun.todo)
  /\ rerun.pc = "done" => rerun.i = Len(rerun.todo)
  /\ Cardinality({i \in Procs : procs[i].drawer}) <= 1
  /\ \A i \in Procs :
       (procs[i].drawer /\ procs[i].kind = "request") =>
         /\ procs[i].method = "eth_sendTransaction"
         /\ ~procs[i].created
         /\ procs[i].pc = "awaitFork" => procs[i].p = rerun.fork
         /\ procs[i].pc = "awaitSend" => procs[i].f = rerun.fork

\* ------------------------------------------------------------------------
\* Properties of the transaction ledger
\* ------------------------------------------------------------------------

\* C11: the ledger entries are in the order in which their sends were
\* issued, i.e. (the ids being given out in increasing order at the issue of
\* a send) the ids of the entries increase strictly along the ledger.
C11_LedgerInSendOrder ==
  \A j, k \in 1..Len(newTransactions) :
    j < k => newTransactions[j].id < newTransactions[k].id

\* recorded -> decoded -> confirmed
Rank(status) ==
  CASE status = "recorded" -> 0
    [] status = "decoded" -> 1
    [] status = "confirmed" -> 2

EntriesOf(entries, id) ==
  {entries[k] : k \in {j \in 1..Len(entries) : entries[j].id = id}}

\* C13: the step in which the slow decode of a send fails (no chain id, or
\* the decode with the ABI lookup throws) touches no call of the Fork
\* Backend and leaves the entry of the send as it was; from then on the
\* entry is in the ledger with its raw representation and never at status
\* decoded; and when the forwarded send returns its hash, the entry becomes
\* confirmed with that hash.
C13_DecodeFailureNotFatal ==
  [][\A id \in 0..(Len(decodes') - 1) :
       decodes'[id + 1] = "failed" =>
         /\ EntriesOf(newTransactions', id) # {}
         /\ \A e \in EntriesOf(newTransactions', id) :
              e.input = "raw" /\ e.status # "decoded"
         /\ decodes[id + 1] # "failed" =>
              /\ procs' = procs
              /\ EntriesOf(newTransactions, id) \subseteq {Entry(id)} \cup
                                                     EntriesOf(newTransactions', id)
              /\ EntriesOf(newTransactions', id) \subseteq {Entry(id)} \cup
                                                      EntriesOf(newTransactions, id)
         /\ \A k \in Procs :
              (procs[k].tx = id /\ procs[k].pc = "resolved"
                 /\ procs' = RemoveAt(procs, k)) =>
                EntriesOf(newTransactions', id) =
                  {[Entry(id) EXCEPT !.status = "confirmed",
                                     !.transactionHash = procs[k].result]}]_vars

\* the slow decode of a send has failed and the send has been confirmed
C13_Witness ==
  \E k \in 1..Len(newTransactions) :
    /\ decodes[newTransactions[k].id + 1] = "failed"
    /\ newTransactions[k].status = "confirmed"
    /\ newTransactions[k].input = "raw"
    /\ newTransactions[k].transactionHash # <<>>

\* ------------------------------------------------------------------------
\* Properties of the batch encoder
\* ------------------------------------------------------------------------

\* the transaction a batch encoding gave: to, value and data
BatchOf(o) == [to |-> o.result.to, value |-> o.result.value, data |-> o.result.data]

\* C14: submitTransactions and copyTransactionData, given one unsubmitted
\* entry, give the encoded call of this entry unchanged; given two or more,
\* they give one call of multiSend at the fixed aggregator address whose
\* packed calls are the encoded calls of the entries, one for each entry,
\* in ledger order.
C14_BatchEncoding ==
  out.op \in {"submitTransactions", "copyTransactionData"} =>
    /\ Len(out.arg) = 1 => BatchOf(out) = EncodeSingle(out.arg[1])
    /\ Len(out.arg) >= 2 =>
         /\ BatchOf(out).to = MultiSendAddress
         /\ BatchOf(out).data.fn = "multiSend"
         /\ Len(BatchOf(out).data.calls) = Len(out.arg)
         /\ \A k \in 1..Len(out.arg) :
              BatchOf(out).data.calls[k] = Packed(EncodeSingle(out.arg[k]))

\* a ledger of two entries with different values was copied as an aggregate
C14_Witness ==
  /\ out.op = "copyTransactionData"
  /\ Len(out.arg) = 2
  /\ out.arg[1].value = <<1, 0>>
  /\ out.arg[2].value = <<0>>
  /\ out.result.data.calls[1].value = 16
  /\ out.result.data.calls[1].data.id = 0
  /\ out.result.data.calls[2].data.id = 1

\* no leading zero digit: 0x0 for zero, else the first digit is not 0
Canonical(v) == v # <<>> /\ (v[1] = 0 => v = <<0>>)

\* C19: formatValue gives a hex string that denotes the number its argument
\* denotes and has no leading zero digit, 0x0 for every encoding of zero;
\* 0x00 and 0x0000 give 0x0, 0x00a0 gives 0xa0.
C19_FormatValueCanonical ==
  out.op = "formatValue" =>
    /\ HexValue(out.result) = HexValue(out.arg)
    /\ Canonical(out.result)
    /\ HexValue(out.arg) = 0 => out.result = <<0>>
    /\ out.arg \in {<<0, 0>>, <<0, 0, 0, 0>>} => out.result = <<0>>
    /\ out.arg = <<0, 0, 10, 0>> => out.result = <<10, 0>>

\* formatValue was applied to 0x00a0
C19_Witness ==
  /\ out.op = "formatValue"
  /\ out.arg = <<0, 0, 10, 0>>
  /\ out.result = <<10, 0>>

\* C20: the value of the transaction that submitTransactions hands to the
\* Wrapping Provider has no leading zero digit.
C20_FinalValueCanonical ==
  out.op = "submitTransactions" => Canonical(out.result.value)

\* ------------------------------------------------------------------------
\* Properties of the message bridges
\* ------------------------------------------------------------------------

\* the calls among ids that a response with this message id is for
WithId(ids, messageId) ==
  LET same(id) == id = messageId IN SelectSeq(ids, same)

\* a response envelope reached the listeners of the GanacheProvider calls
\* (in the extension page) or of the Eip1193Provider calls (in the iframe)
ResponseArrived ==
  \/ last.at = "host" /\ last.env.tag = "ganacheResponse"
  \/ last.at = "frame" /\ last.env.tag = "responseToGanache"

\* C1: whatever calls are pending and in whatever order the responses come, a
\* response envelope settles the pending call with its message id, which
\* is one call at most, and no other call; no other envelope settles a call.
C1_MessageIdCorrelation ==
  /\ last.at \in {"host", "frame"} =>
       /\ Len(last.settled) <= 1
       /\ last.settled = IF ResponseArrived
                           THEN WithId(last.pending, last.env.messageId)
                           ELSE <<>>
  /\ \A j, k \in 1..Len(gpCalls) : gpCalls[j] = gpCalls[k] => j = k
  /\ \A j, k \in 1..Len(eipCalls) : eipCalls[j] = eipCalls[k] => j = k

\* two calls pending, and the response to the later one came first
C1_Witness ==
  /\ last.at = "host"
  /\ last.env.source = "frame"
  /\ Len(last.pending) = 2
  /\ last.settled = <<last.pending[2]>>
  /\ gpCalls = <<last.pending[1]>>

\* a request envelope reached GanacheBridgeHost.handleMessage from a sender
\* other than the one recorded (none is recorded before the handshake)
ForeignRequest ==
  /\ last.at = "host"
  /\ last.env.tag = "requestFromGanache"
  /\ last.env.source # last.source

\* C5: a request envelope whose sender is not the sender recorded at the
\* handshake, or that comes before any handshake, fails with "unexpected
\* message source", is not forwarded to the wallet provider, and has no
\* response envelope posted for it.
C5_ForeignRequestRejected ==
  ForeignRequest =>
    /\ last.outcome = "unexpected message source"
    /\ ~last.forwarded
    /\ last.posted = {}

\* a request of the iframe delivered before its init envelope
C5_Witness ==
  /\ ForeignRequest
  /\ last.source = "none"
  /\ last.env.source = "frame"
  /\ hostCalls = <<>>

\* C6: a response envelope that does not come from the peer of the bridge
\* (the iframe for GanacheProvider, the extension page for Eip1193Provider)
\* settles no pending call.
C6_ForeignResponseRejected ==
  /\ (last.at = "host" /\ last.env.tag = "ganacheResponse"
        /\ last.env.source # "frame") => last.settled = <<>>
  /\ (last.at = "frame" /\ last.env.tag = "responseToGanache"
        /\ last.env.source # "host") => last.settled = <<>>

\* C7: once GanacheBridgeHost has recorded a sender, no later envelope
\* changes the recorded sender.
C7_SenderRecordedOnce ==
  [][hostSource # "none" => hostSource' = hostSource]_vars

\* C8: when the target provider of a dispatcher call settles, exactly one
\* response envelope with the message id of the request is posted, with an
\* error payload if and only if the target provider failed.
C8_OneResponsePerRequest ==
  last.at \in {"handleRequest", "dispatcher"} =>
    /\ Cardinality(last.posted) = 1
    /\ \A e \in last.posted :
         /\ e.messageId = last.messageId
         /\ e.error = last.failed

\* the ids are in ascending order without repetition, and all below the counter
Ascending(calls, messageId) ==
  /\ \A j, k \in 1..Len(calls) : j < k => calls[j] < calls[k]
  /\ \A k \in 1..Len(calls) : calls[k] \in 0..(messageId - 1)

\* C21: each bridge instance counts its message ids from 0 and adds one per
\* request() call; the call takes the counter's value before the addition, so
\* the ids of the pending calls of an instance are distinct, in call order,
\* and an id once assigned is not assigned again.
C21_MessageIdsMonotonic ==
  [][/\ gpMessageId' \in {gpMessageId, gpMessageId + 1}
     /\ eipMessageId' \in {eipMessageId, eipMessageId + 1}
     /\ gpMessageId' # gpMessageId => gpCalls' = Append(gpCalls, gpMessageId)
     /\ eipMessageId' # eipMessageId => eipCalls' = Append(eipCalls, eipMessageId)
     /\ gpMessageId' = gpMessageId => Len(gpCalls') <= Len(gpCalls)
     /\ eipMessageId' = eipMessageId => Len(eipCalls') <= Len(eipCalls)
     /\ Ascending(gpCalls', gpMessageId')
     /\ Ascending(eipCalls', eipMessageId')]_vars

\* two calls of the GanacheProvider pending at once
C21_Witness ==
  /\ gpMessageId = 2
  /\ gpCalls = <<0, 1>>

\* ------------------------------------------------------------------------
\* The cached block number across forks
\* ------------------------------------------------------------------------

\* C22: while the provider stays on one fork, a step that changes the cached
\* block number does not lower it.
C22_BlockNumberNeverDecreases ==
  [][(forkId # 0 /\ forkId' = forkId /\ blockNumber # 0 /\ blockNumber' # 0)
       => blockNumber' >= blockNumber]_vars

\* C26: the cached block number is not above the head block of the fork
\* the provider is on.
C26_BlockNumberWithinHead ==
  (forkId # 0 /\ blockNumber # 0) => blockNumber <= heads[forkId]

\* ------------------------------------------------------------------------
\* The start of the iframe and the bridge host of ProvideGanache
\* ------------------------------------------------------------------------

\* the step sets the simulator up or posts the iframe's init envelope
SetsUp ==
  \/ frameState' # frameState
  \/ CopiesIn(FrameInit, channel') > CopiesIn(FrameInit, channel)

\* C23: the simulator is set up and the init envelope is posted only by the
\* step in which the deletion of the database succeeds; while the deletion
\* has not succeeded the iframe is not set up and has posted no init envelope,
\* and a failed deletion stays failed.
C23_SetupAfterDeletion ==
  [][/\ SetsUp => (dbDelete = "pending" /\ dbDelete' = "success")
     /\ dbDelete' # "success" =>
          (frameState' = "loading" /\ ~BagIn(FrameInit, channel')
             /\ eipMessageId' = 0 /\ frameCalls' = <<>>)
     /\ dbDelete = "error" => dbDelete' = "error"]_vars

\* the deletion succeeded, the iframe is set up and its handshake arrived
C23_Witness ==
  /\ dbDelete = "success"
  /\ frameState = "ready"
  /\ hostSource = "frame"
  /\ bridgeReady

\* C24: whenever ProvideGanache renders its children, the GanacheBridgeHost
\* that is listening has a recorded sender.
C24_ReadyHostHasSender ==
  bridgeReady => hostSource # "none"

\* ------------------------------------------------------------------------
\* Failures of "re-fork and replay" and of the fork creation
\* ------------------------------------------------------------------------

\* the step in which reforkAndRerun throws before its first replayed send
RerunFailsEarly ==
  /\ rerun' # rerun
  /\ rerun'.pc = "failed"
  /\ rerun.pc # "send"

\* C25: when reforkAndRerun fails before it replays anything, the entries
\* the ledger had when it was called are still there.
C25_FailedRerunKeepsLedger ==
  [][RerunFailsEarly =>
       \A k \in 1..Len(rerun'.todo) : HasEntry(newTransactions', rerun'.todo[k])]_vars

\* the getTransactionInfo call made in this step, if one is made
Lookups ==
  {i \in 1..Len(procs') :
     /\ Len(procs') = Len(procs) + 1
     /\ i = Len(procs')
     /\ procs'[i].kind = "getTransactionInfo"}

\* C27: a getTransactionInfo call made while the provider is on a fork
\* awaits metadata fetched from this fork, if it awaits fetched metadata.
C27_InfoFromCurrentFork ==
  [][\A i \in Lookups :
       (forkId # 0 /\ infos'[procs'[i].g].fetched)
         => infos'[procs'[i].g].fork = forkId]_vars

\* the creation held in forkProviderPromise has failed, and every call that
\* awaited it has returned its error
CreationFailedAndReported ==
  /\ forkProviderPromise # 0
  /\ Rejected(forkProviderPromise)
  /\ \A i \in 1..Len(procs) : procs[i].p # forkProviderPromise

\* C28: after a failed fork creation has been reported, a mutating call
\* starts a new creation.
C28_CreationRetried ==
  [][(CreationFailedAndReported /\ nCalls' # nCalls
        /\ NeedsFork(answered'.method))
       => (Len(promises') = Len(promises) + 1
             /\ forkProviderPromise' = Len(promises'))]_vars

\* ------------------------------------------------------------------------
\* Submission of the batch
\* ------------------------------------------------------------------------

\* C29: submitTransactions dispatches nothing before the wallet's request is
\* settled; when the request resolves with a hash it dispatches
\* SUBMIT_TRANSACTIONS once, with this hash, and returns the hash; when the
\* request fails it dispatches nothing, the unsubmitted entries stay as
\* they are and the call throws.
C29_SubmitAfterWalletAnswer ==
  [][/\ submit'.pc = "awaiting" =>
          (submit'.dispatched = <<>> /\ newTransactions' = newTransactions)
     /\ (submit.pc = "awaiting" /\ submit'.pc = "done") =>
          /\ submit'.result \in WalletHashes
          /\ submit'.dispatched = <<submit'.result>>
          /\ submit'.returned = submit'.result
          /\ ~submit'.thrown
     /\ (submit.pc = "awaiting" /\ submit'.pc = "failed") =>
          /\ submit'.dispatched = <<>>
          /\ newTransactions' = newTransactions
          /\ submit'.thrown
          /\ submit'.returned = <<>>
     /\ Len(submit'.dispatched) > Len(submit.dispatched) =>
          (submit.pc = "awaiting" /\ submit'.pc = "done")]_vars

\* the wallet's request for a batch of two entries has failed
C29_Witness ==
  /\ submit.pc = "failed"
  /\ submit.thrown
  /\ out.op = "submitTransactions"
  /\ Len(out.arg) = 2
  /\ newTransactions = out.arg

====
